---- MODULE Spec2Model ----
(***************************************************************************)
(* A model of robocluster's networking layer: the Router's peer table,     *)
(* heartbeat expiry and pending connections (router.py), the Caster        *)
(* receive loop and the publish/send dispatch (router.py), and the         *)
(* AsyncSocket wrapper (net.py).                                           *)
(*                                                                         *)
(* Python dicts are functions whose DOMAIN is the set of keys.  A          *)
(* coroutine is cut at its await points: one action per stretch of code    *)
(* that runs without suspending.                                           *)
(***************************************************************************)
EXTENDS Integers, Sequences, FiniteSets, TLC

\* ---------------------------------------------------------------- bounds
\* Number of application tasks that call Router.connect.
NumCallers == 2
\* Size of the pool of identities for _heartbeat_expire tasks.
MaxTasks == 3
\* Resolution of the router model's clock: ticks per expiry window.
ExpireTicks == 2
\* Cap of the count of consecutive lost heartbeats (the count saturates).
MaxLost == 12
\* Most subscriptions and most general message callbacks registered.
MaxSubs == 2
MaxCallbacks == 2
\* Datagrams the discovery socket buffers, and callback tasks not yet run.
MaxInbox == 1
MaxCbTasks == 1
\* Operations started on the AsyncSocket, and datagrams it buffers.
NumOps == 2
MaxData == 1
\* Datagrams, as bytes, the discovery socket buffers; callback tasks the
\* loops created and the event loop has not run; connections accepted.
MaxDgrams == 1
MaxLoopTasks == 1
MaxConns == 2
\* Multicasters constructed, and calls of stop() on each.
NumCasters == 2
MaxStops == 2
\* Bytes the serial StreamReader holds.
MaxSerial == 4

\* Router.HEARTBEAT_RATE (0.1 s) and the default Router.HEARTBEAT_EXPIRE
\* (1 s), in ticks of 0.1 s.
HEARTBEAT_RATE == 1
HEARTBEAT_EXPIRE_DEFAULT == 10

Callers == 1 .. NumCallers
TaskIds == 1 .. MaxTasks
\* Peer names heartbeats may carry.
Names == {"rover", "tester"}
\* Sender addresses (other[0]) and source port (other[1]) of datagrams.
Addrs == {"10.0.0.5", "10.0.0.6"}
SrcPort == 40000
\* Listen ports heartbeats advertise.
ListenPorts == {5000}
NoEndpoint == <<"-", 0>>
NoName == "-"
Never == 0 - 1

\* ------------------------------------------------------------ dict helpers
EmptyDict == [k \in {} |-> 0]
Put(d, k, v) == [x \in (DOMAIN d) \cup {k} |-> IF x = k THEN v ELSE d[x]]
Del(d, k) == [x \in (DOMAIN d) \ {k} |-> d[x]]
Min(S) == CHOOSE x \in S : \A y \in S : x <= y

VARIABLES
  peers,                \* Router._peers: name -> [listen, expire]
  pending_connections,  \* Router._pending_connections: name -> future
  connections,          \* Router._connections: name -> endpoint connected to
  expireTasks,          \* live _heartbeat_expire tasks: id -> [name, left]
  HEARTBEAT_EXPIRE,     \* Router.HEARTBEAT_EXPIRE, in clock ticks
  pc,                   \* where each caller of connect() stands
  arg,                  \* the name each caller passed to connect()
  target,               \* the endpoint each caller opens its connection to
  futDone,              \* whether the future a caller created has a result
  age,                  \* ticks since the last heartbeat handled for a name
  hbSince,              \* a heartbeat for arg[c] was handled since c registered
  resolvedBy,           \* endpoint of the heartbeat that resolved c's future
  sleepLeft,            \* per remote router: ticks left of its daemon's sleep
  lost,                 \* per remote router: heartbeats lost in a row
  cancelledLeft,        \* per remote router: what was left of the timer its
                        \* last heartbeat cancelled (Never: it cancelled none)
  subscriptions,        \* Router._subscriptions: sequence of patterns
  message_callbacks,    \* Router.message_callbacks: sequence of callbacks
  inbox,                \* datagrams waiting in the discovery socket
  cbTasks,              \* callback tasks created and not yet run
  lastCast,             \* the last message the router's caster sent
  lastRouted,           \* the last message passed to route_message
  lastDispatch,         \* what the last publish/send dispatch did
  opState,              \* per socket operation: new, pending, done, ...
  opDir,                \* per socket operation: "recv" or "send"
  reader,               \* the operation registered as the fd's reader, or 0
  writer,               \* the operation registered as the fd's writer, or 0
  rxData,               \* datagrams the OS holds for the socket
  txRoom,               \* whether the OS send buffer has room
  sockError,            \* whether the socket is in an error state
  lastWrapper,          \* the wrapper call of the last step, if it was one
  sendPc,               \* where each caller of send() stands
  sendReq,              \* the (dest, topic, data) each caller passed to send()
  hadConn,              \* whether dest had a connection when send() was called
  written,              \* per caller: the writes its send() made, in order
  digest,               \* sha256(key.encode()).digest(), bytes 0..14 of it
  family,               \* the family argument of key_to_multicast
  multicast,            \* what key_to_multicast returned or raised
  wire,                 \* bytes handed to Message.from_bytes
  decoded,              \* what Message.from_bytes(wire) returned or raised
  message,              \* a Message to encode
  encoded,              \* message.encode()
  echoed,               \* what Message.from_bytes(encoded) returned or raised
  sockQueue,            \* datagrams, as bytes, waiting in the discovery socket
  recvLoop,             \* Caster._recv_daemon: "running" or "ended"
  loopTasks,            \* callback tasks the loops created, not yet run
  failures,             \* the kinds of failure met so far
  survived,             \* the failures met before the last task was created
  connState,            \* per connection the Listener may accept: none, open,
                        \* closed
  acceptLoop,           \* Listener._listener: "running" or "ended"
  lastRead,             \* the read of the last step, if it was one
  prevDispatch,         \* what the dispatch before the last did
  serialIn,             \* bytes the serial StreamReader holds
  rxPc,                 \* _receive_task: header, length, payload or ended
  rxHeader,             \* the header byte of the packet being read
  rxLength,             \* the length bytes of the packet being read
  lastHeader,           \* the last header byte read and what became of it
  lastDecode,           \* the bytes last handed to pyvesc.decode
  packet_callback,      \* SerialConnection.packet_callback
  peerAtSend,           \* per caller: the endpoint the peer table held for
                        \* dest when send() found a connection for it
  casters,              \* per Multicaster: its state, group and sockets
  sockets,              \* the sockets the OS has handed out, in order
  syscalls              \* per Multicaster: the system calls of its stop()

routerVars == <<peers, pending_connections, connections, expireTasks,
                HEARTBEAT_EXPIRE, pc, arg, target, futDone, age, hbSince,
                resolvedBy>>

daemonVars == <<sleepLeft, lost, cancelledLeft>>

castVars == <<subscriptions, message_callbacks, inbox, cbTasks, lastCast,
              lastRouted, lastDispatch>>

sockVars == <<opState, opDir, reader, writer, rxData, txRoom, sockError,
              lastWrapper>>

sendVars == <<sendPc, sendReq, hadConn, written>>

netVars == <<digest, family, multicast>>

msgVars == <<wire, decoded, message, encoded, echoed>>

recvVars == <<sockQueue, recvLoop, failures, survived>>

listenVars == <<connState, acceptLoop, lastRead>>

loopVars == <<recvVars, listenVars, loopTasks>>

mcVars == <<casters, sockets, syscalls>>

serialVars == <<serialIn, rxPc, rxHeader, rxLength, lastHeader, lastDecode,
                packet_callback>>

vars == <<routerVars, daemonVars, castVars, sockVars, sendVars, netVars,
          msgVars, loopVars, mcVars, serialVars, prevDispatch, peerAtSend>>

\* ------------------------------------------------------------------ Router
RouterInit ==
  /\ peers = EmptyDict
  /\ pending_connections = EmptyDict
  /\ connections = EmptyDict
  /\ expireTasks = EmptyDict
  /\ pc = [c \in Callers |-> "idle"]
  /\ arg = [c \in Callers |-> NoName]
  /\ target = [c \in Callers |-> NoEndpoint]
  /\ futDone = [c \in Callers |-> FALSE]
  /\ age = [n \in Names |-> Never]
  /\ hbSince = [c \in Callers |-> FALSE]
  /\ resolvedBy = [c \in Callers |-> NoEndpoint]

\* A caller whose future has a result is ready to run: the event loop runs it
\* before it lets time pass.
Woken(c) == pc[c] = "waiting" /\ futDone[c]

\* connect() is left, by return or by an exception: its frame, and what the
\* model recorded about the call, are gone.
Leave(c) ==
  /\ target' = [target EXCEPT ![c] = NoEndpoint]
  /\ hbSince' = [hbSince EXCEPT ![c] = FALSE]
  /\ resolvedBy' = [resolvedBy EXCEPT ![c] = NoEndpoint]

\* connect(), up to its first await: register a future when the peer is
\* unknown, else read the peer's endpoint and start connecting.
Connect(c, name) ==
  /\ pc[c] = "idle"
  /\ arg' = [arg EXCEPT ![c] = name]
  /\ IF name \notin DOMAIN peers
       THEN /\ pending_connections' = Put(pending_connections, name, c)
            /\ pc' = [pc EXCEPT ![c] = "waiting"]
            /\ target' = target
       ELSE /\ target' = [target EXCEPT ![c] = peers[name].listen]
            /\ pc' = [pc EXCEPT ![c] = "connecting"]
            /\ pending_connections' = pending_connections
  /\ UNCHANGED <<peers, connections, expireTasks, HEARTBEAT_EXPIRE, futDone,
                 age, hbSince, resolvedBy>>

ConnectResumeKeepsEntry(c) ==
  /\ Woken(c)
  /\ IF arg[c] \notin DOMAIN peers
       THEN pc' = [pc EXCEPT ![c] = "keyerror"] /\ Leave(c)
       ELSE /\ target' = [target EXCEPT ![c] = peers[arg[c]].listen]
            /\ pc' = [pc EXCEPT ![c] = "connecting"]
            /\ UNCHANGED <<hbSince, resolvedBy>>
  /\ UNCHANGED <<peers, pending_connections, connections, expireTasks,
                 HEARTBEAT_EXPIRE, arg, futDone, age>>

\* connect(), resumed by its future: delete the pending entry, read the
\* peer's endpoint, start connecting.  Either lookup raises KeyError when the
\* key is gone.
ConnectResume(c) ==
  /\ Woken(c)
  /\ IF arg[c] \notin DOMAIN pending_connections
       THEN /\ pc' = [pc EXCEPT ![c] = "keyerror"]
            /\ Leave(c)
            /\ UNCHANGED pending_connections
       ELSE /\ pending_connections' = Del(pending_connections, arg[c])
            /\ IF arg[c] \notin DOMAIN peers
                 THEN /\ pc' = [pc EXCEPT ![c] = "keyerror"]
                      /\ Leave(c)
                 ELSE /\ target' = [target EXCEPT ![c] = peers[arg[c]].listen]
                      /\ pc' = [pc EXCEPT ![c] = "connecting"]
                      /\ UNCHANGED <<hbSince, resolvedBy>>
  /\ UNCHANGED <<peers, connections, expireTasks, HEARTBEAT_EXPIRE, arg,
                 futDone, age>>

\* Connection.from_addr returned: store the connection, then print the
\* peer's endpoint, which raises KeyError when the peer has expired meanwhile.
ConnectEstablished(c) ==
  /\ pc[c] = "connecting"
  /\ connections' = Put(connections, arg[c], target[c])
  /\ pc' = [pc EXCEPT ![c] = IF arg[c] \in DOMAIN peers THEN "done"
                                                         ELSE "keyerror"]
  /\ Leave(c)
  /\ UNCHANGED <<peers, pending_connections, expireTasks, HEARTBEAT_EXPIRE,
                 arg, futDone, age>>

\* Connection.from_addr raised: the error leaves connect().
ConnectRefused(c) ==
  /\ pc[c] = "connecting"
  /\ pc' = [pc EXCEPT ![c] = "connecterror"]
  /\ Leave(c)
  /\ UNCHANGED <<peers, pending_connections, connections, expireTasks,
                 HEARTBEAT_EXPIRE, arg, futDone, age>>

\* The task awaiting in connect() is cancelled: CancelledError is raised at
\* the await; connect() has no handler for it.  The pc records where the
\* caller stood: before its future had a result, after, or while connecting.
Cancel(c) ==
  /\ pc[c] \in {"waiting", "connecting"}
  /\ pc' = [pc EXCEPT ![c] = IF pc[c] = "connecting" THEN "cancelled_connecting"
                             ELSE IF futDone[c] THEN "cancelled_woken"
                             ELSE "cancelled_waiting"]
  /\ Leave(c)
  /\ UNCHANGED <<peers, pending_connections, connections, expireTasks,
                 HEARTBEAT_EXPIRE, arg, futDone, age>>

\* A _heartbeat_expire(name) task as created: it sleeps HEARTBEAT_EXPIRE.
ExpireTaskShortSleep(name) == [name |-> name, left |-> HEARTBEAT_RATE]
ExpireTask(name) == [name |-> name, left |-> HEARTBEAT_EXPIRE]

FreshTask(tasks) == Min(TaskIds \ DOMAIN tasks)

\* _heartbeat_callback(other, msg) with msg.data = {source, listen}; live is
\* what is left of the expire tasks once the peer's armed timer is dealt with.
HandleHeartbeat(other, source, listen, live) ==
  LET resolves == /\ source \in DOMAIN pending_connections
                  /\ ~futDone[pending_connections[source]]
      ep == <<other[1], listen>>
  IN /\ TaskIds \ DOMAIN live # {}
     /\ expireTasks' = Put(live, FreshTask(live), ExpireTask(source))
     /\ peers' = Put(peers, source,
                     [listen |-> ep, expire |-> FreshTask(live)])
     /\ futDone' = IF resolves
                     THEN [futDone EXCEPT ![pending_connections[source]] = TRUE]
                     ELSE futDone
     /\ resolvedBy' = IF resolves
                     THEN [resolvedBy EXCEPT ![pending_connections[source]] = ep]
                     ELSE resolvedBy
     /\ age' = [age EXCEPT ![source] = 0]
     /\ hbSince' = [c \in Callers |->
                      hbSince[c] \/ (pc[c] = "waiting" /\ arg[c] = source)]
     /\ UNCHANGED <<pending_connections, connections, HEARTBEAT_EXPIRE, pc,
                    arg, target>>

HeartbeatCallbackNoCancel(other, source, listen) ==
  HandleHeartbeat(other, source, listen, expireTasks)

\* The timer of a peer already in the table is cancelled, a new one is armed.
HeartbeatCallback(other, source, listen) ==
  HandleHeartbeat(other, source, listen,
                  IF source \in DOMAIN peers
                    THEN Del(expireTasks, peers[source].expire)
                    ELSE expireTasks)

HeartbeatExpireDropsConnection(t) ==
  /\ t \in DOMAIN expireTasks
  /\ expireTasks[t].left = 0
  /\ peers' = IF expireTasks[t].name \in DOMAIN peers
                THEN Del(peers, expireTasks[t].name) ELSE peers
  /\ connections' = Del(connections, expireTasks[t].name)
  /\ expireTasks' = Del(expireTasks, t)
  /\ UNCHANGED <<pending_connections, HEARTBEAT_EXPIRE, pc, arg,
                 target, futDone, age, hbSince, resolvedBy>>

\* _heartbeat_expire(name), after its sleep.
HeartbeatExpire(t) ==
  /\ t \in DOMAIN expireTasks
  /\ expireTasks[t].left = 0
  /\ peers' = IF expireTasks[t].name \in DOMAIN peers
                THEN Del(peers, expireTasks[t].name) ELSE peers
  /\ expireTasks' = Del(expireTasks, t)
  /\ UNCHANGED <<pending_connections, connections, HEARTBEAT_EXPIRE, pc, arg,
                 target, futDone, age, hbSince, resolvedBy>>

\* Time passes by one tick: sleeping tasks come closer to waking.  Timers
\* that are due run before the event loop waits again.
TimePasses ==
  /\ \A t \in DOMAIN expireTasks : expireTasks[t].left > 0
  /\ expireTasks' = [t \in DOMAIN expireTasks |->
                       [expireTasks[t] EXCEPT !.left = @ - 1]]
  /\ age' = [n \in Names |->
               IF age[n] = Never \/ age[n] > HEARTBEAT_EXPIRE
                 THEN age[n] ELSE age[n] + 1]
  /\ UNCHANGED <<peers, pending_connections, connections, HEARTBEAT_EXPIRE,
                 pc, arg, target, futDone, hbSince, resolvedBy>>

\* One tick of the router's clock.  The event loop runs the callers that are
\* ready before it waits.
Tick ==
  /\ \A c \in Callers : ~Woken(c)
  /\ TimePasses

\* ------------------------------------------------- remote heartbeat daemons
\* Each name is a remote router whose _heartbeat_daemon casts a heartbeat and
\* sleeps HEARTBEAT_RATE, forever.  The network delivers a datagram at once
\* or loses it.
AddrOf(n) == IF n = "rover" THEN "10.0.0.5" ELSE "10.0.0.6"
DaemonListen == 5000

DaemonInit ==
  /\ sleepLeft = [n \in Names |-> 0]
  /\ lost = [n \in Names |-> 0]
  /\ cancelledLeft = [n \in Names |-> Never]

\* _heartbeat_daemon of router n: cast, then sleep.
HeartbeatDaemon(n) ==
  /\ sleepLeft[n] = 0
  /\ sleepLeft' = [sleepLeft EXCEPT ![n] = HEARTBEAT_RATE]

\* The heartbeat cast by n reaches the router, which handles it.
DaemonCastDelivered(n) ==
  /\ HeartbeatDaemon(n)
  /\ HeartbeatCallback(<<AddrOf(n), SrcPort>>, n, DaemonListen)
  /\ lost' = [lost EXCEPT ![n] = 0]
  /\ cancelledLeft' = [cancelledLeft EXCEPT ![n] =
                         IF n \in DOMAIN peers
                           THEN expireTasks[peers[n].expire].left ELSE Never]

\* The heartbeat cast by n is lost on the way.
DaemonCastLost(n) ==
  /\ HeartbeatDaemon(n)
  /\ lost' = [lost EXCEPT ![n] = IF @ < MaxLost THEN @ + 1 ELSE @]
  /\ UNCHANGED <<cancelledLeft, routerVars>>

\* One tick of the clock with the daemons running: a daemon whose sleep is
\* over casts before time goes on.
DaemonTick ==
  /\ \A n \in Names : sleepLeft[n] > 0
  /\ sleepLeft' = [n \in Names |-> sleepLeft[n] - 1]
  /\ TimePasses
  /\ UNCHANGED <<lost, cancelledLeft>>

\* ------------------------------------------------ strings, topics, fnmatch
\* Strings that are formatted or matched are sequences of characters.
rover == <<"r", "o", "v", "e", "r">>
tester == <<"t", "e", "s", "t", "e", "r">>
blarg == <<"b", "l", "a", "r", "g">>
Slash == <<"/">>
Star == <<"*">>
Chars(n) == IF n = "rover" THEN rover ELSE tester

\* fnmatch(name, pat) for patterns of literal characters, * and ?: the whole
\* name must match; * matches any run of characters, "/" included.
RECURSIVE fnmatch(_, _)
fnmatch(name, pat) ==
  IF pat = <<>> THEN name = <<>>
  ELSE IF Head(pat) = "*"
    THEN fnmatch(name, Tail(pat)) \/ (name # <<>> /\ fnmatch(Tail(name), pat))
  ELSE /\ name # <<>>
       /\ (Head(pat) = "?" \/ Head(pat) = Head(name))
       /\ fnmatch(Tail(name), Tail(pat))

Patterns == {rover \o Slash \o Star, Star \o Slash \o blarg}

\* ---------------------------------------------------------------- Message
Message(source, type, data) == [source |-> source, type |-> type, data |-> data]
NoData == [empty |-> TRUE]
NoMsg == Message("-", "-", NoData)

\* The router under study: its name, its caster's uuid, its address.
RouterName == "tester"
Uuid == "uuid-self"
OwnAddr == <<"10.0.0.1", SrcPort>>
OwnListen == 5000

\* Datagrams other processes cast to the group, with the sender's address.
ForeignDatagrams ==
  { [msg |-> Message("uuid-rover", "publish",
                     [topic |-> rover \o Slash \o blarg, data |-> 27]),
     other |-> <<"10.0.0.5", SrcPort>>],
    [msg |-> Message("uuid-other", "publish",
                     [topic |-> tester \o Slash \o blarg, data |-> 27]),
     other |-> <<"10.0.0.6", SrcPort>>],
    [msg |-> Message("uuid-rover", "heartbeat",
                     [source |-> "rover", listen |-> 5000]),
     other |-> <<"10.0.0.5", SrcPort>>],
    [msg |-> Message("uuid-rover", "request", NoData),
     other |-> <<"10.0.0.5", SrcPort>>] }

\* Messages read from connections the Listener accepted.
ListenerMessages ==
  { Message("rover", "send", [topic |-> rover \o Slash \o blarg, data |-> 27]),
    Message("rover", "publish", [topic |-> rover \o Slash \o blarg, data |-> 27]) }

\* Messages the serial bridge hands to route_message.
RoutedMessages ==
  { Message("arduino", "publish", [topic |-> blarg, data |-> 27]),
    Message("arduino", "send", [topic |-> rover \o Slash \o blarg, data |-> 27]),
    Message("arduino", "heartbeat", [source |-> "rover", listen |-> 5000]),
    Message("arduino", "request", NoData) }

\* ------------------------------------------------------- Caster, Listener
NoDispatch == [msg |-> NoMsg, via |-> "-", started |-> <<>>, args |-> <<>>,
               called |-> <<>>]

CastInit ==
  /\ subscriptions = <<>>
  /\ message_callbacks = <<>>
  /\ inbox = <<>>
  /\ cbTasks = <<>>
  /\ lastCast = NoMsg
  /\ lastRouted = NoMsg
  /\ lastDispatch = NoDispatch

\* Caster._callbacks after Router.__init__, Listener._callbacks likewise.
CasterCallbacks == {"heartbeat", "publish"}
ListenerCallbacks == {"send"}

\* Multicaster.cast(type, data): the message carries the caster's uuid and is
\* sent to the group, which the caster's own receiving socket is a member of:
\* the datagram arrives there too, unless the socket's buffer is full.
Cast(type, data) ==
  LET msg == Message(Uuid, type, data)
  IN /\ lastCast' = msg
     /\ inbox' = IF Len(inbox) < MaxInbox
                   THEN Append(inbox, [msg |-> msg, other |-> OwnAddr])
                   ELSE inbox

\* A datagram of another process arrives at the discovery socket.
DatagramArrives(d) ==
  /\ Len(inbox) < MaxInbox
  /\ inbox' = Append(inbox, d)
  /\ UNCHANGED <<subscriptions, message_callbacks, cbTasks, lastCast,
                 lastRouted, lastDispatch>>

\* Caster._recv_daemon, one turn of its loop: a message of a type without a
\* callback, or one that carries the caster's own uuid, is skipped; for any
\* other a task running the callback is created.
RecvDaemonNoSelfCheck ==
  /\ inbox # <<>>
  /\ Len(cbTasks) < MaxCbTasks
  /\ inbox' = Tail(inbox)
  /\ cbTasks' = IF Head(inbox).msg.type \notin CasterCallbacks
                  THEN cbTasks
                  ELSE Append(cbTasks, [cb |-> Head(inbox).msg.type,
                                        other |-> Head(inbox).other,
                                        msg |-> Head(inbox).msg])
  /\ UNCHANGED <<subscriptions, message_callbacks, lastCast, lastRouted,
                 lastDispatch>>

RecvDaemon ==
  /\ inbox # <<>>
  /\ Len(cbTasks) < MaxCbTasks
  /\ inbox' = Tail(inbox)
  /\ cbTasks' = IF \/ Head(inbox).msg.type \notin CasterCallbacks
                   \/ Head(inbox).msg.source = Uuid
                  THEN cbTasks
                  ELSE Append(cbTasks, [cb |-> Head(inbox).msg.type,
                                        other |-> Head(inbox).other,
                                        msg |-> Head(inbox).msg])
  /\ UNCHANGED <<subscriptions, message_callbacks, lastCast, lastRouted,
                 lastDispatch>>

\* Listener._handle_connection, one turn of its loop: a message read from an
\* accepted connection gets a callback task when its type has a callback.
HandleConnection(msg) ==
  /\ Len(cbTasks) < MaxCbTasks
  /\ cbTasks' = IF msg.type \in ListenerCallbacks
                  THEN Append(cbTasks, [cb |-> msg.type, other |-> msg.source,
                                        msg |-> msg])
                  ELSE cbTasks
  /\ UNCHANGED <<subscriptions, message_callbacks, inbox, lastCast,
                 lastRouted, lastDispatch>>

\* ---------------------------------------------------- Router, dispatching
\* subscribe(topic, callback) and on_message(callback).  A callback either
\* returns or raises.  What was recorded of the last dispatch is dropped: it
\* describes the registrations it ran with.
Subscribe(pattern) ==
  /\ Len(subscriptions) < MaxSubs
  /\ subscriptions' = Append(subscriptions, pattern)
  /\ lastDispatch' = NoDispatch
  /\ UNCHANGED <<message_callbacks, inbox, cbTasks, lastCast, lastRouted>>

OnMessage(kind) ==
  /\ Len(message_callbacks) < MaxCallbacks
  /\ message_callbacks' = Append(message_callbacks, kind)
  /\ lastDispatch' = NoDispatch
  /\ UNCHANGED <<subscriptions, inbox, cbTasks, lastCast, lastRouted>>

\* The loop over the subscriptions: one task per subscription whose pattern
\* the topic matches; the result lists the subscriptions' positions.
RECURSIVE StartTasksFirstOnly(_, _)
StartTasksFirstOnly(topic, i) ==
  IF i > Len(subscriptions) THEN <<>>
  ELSE IF fnmatch(topic, subscriptions[i]) THEN <<i>>
  ELSE StartTasksFirstOnly(topic, i + 1)

RECURSIVE StartTasks(_, _)
StartTasks(topic, i) ==
  IF i > Len(subscriptions) THEN <<>>
  ELSE (IF fnmatch(topic, subscriptions[i]) THEN <<i>> ELSE <<>>)
       \o StartTasks(topic, i + 1)

\* The loop over the message callbacks, each awaited in turn: an exception
\* one raises leaves the loop and the coroutine.
RECURSIVE InvokeCallbacks(_)
InvokeCallbacks(i) ==
  IF i > Len(message_callbacks) THEN <<>>
  ELSE IF message_callbacks[i] = "raises" THEN <<i>>
  ELSE <<i>> \o InvokeCallbacks(i + 1)

\* _publish_callback(other, msg).
PublishCallback(other, msg) ==
  /\ lastDispatch' = [msg |-> msg, via |-> "publish",
                      started |-> StartTasks(msg.data.topic, 1),
                      args |-> <<msg.data.topic, msg.data.data>>,
                      called |-> InvokeCallbacks(1)]
  /\ UNCHANGED <<subscriptions, message_callbacks, inbox, lastCast, lastRouted>>

\* _send_callback(other, msg), with its own copy of the two loops.
RECURSIVE SendStartTasks(_, _)
SendStartTasks(topic, i) ==
  IF i > Len(subscriptions) THEN <<>>
  ELSE (IF fnmatch(topic, subscriptions[i]) THEN <<i>> ELSE <<>>)
       \o SendStartTasks(topic, i + 1)

RECURSIVE SendInvokeCallbacks(_)
SendInvokeCallbacks(i) ==
  IF i > Len(message_callbacks) THEN <<>>
  ELSE IF message_callbacks[i] = "raises" THEN <<i>>
  ELSE <<i>> \o SendInvokeCallbacks(i + 1)

SendCallbackNoMessageCallbacks(other, msg) ==
  /\ lastDispatch' = [msg |-> msg, via |-> "send",
                      started |-> SendStartTasks(msg.data.topic, 1),
                      args |-> <<msg.data.topic, msg.data.data>>,
                      called |-> <<>>]
  /\ UNCHANGED <<subscriptions, message_callbacks, inbox, lastCast, lastRouted>>

SendCallback(other, msg) ==
  /\ lastDispatch' = [msg |-> msg, via |-> "send",
                      started |-> SendStartTasks(msg.data.topic, 1),
                      args |-> <<msg.data.topic, msg.data.data>>,
                      called |-> SendInvokeCallbacks(1)]
  /\ UNCHANGED <<subscriptions, message_callbacks, inbox, lastCast, lastRouted>>

\* The event loop runs the oldest callback task.
RunCallback ==
  /\ cbTasks # <<>>
  /\ cbTasks' = Tail(cbTasks)
  /\ LET t == Head(cbTasks)
     IN CASE t.cb = "heartbeat" ->
               /\ HeartbeatCallback(t.other, t.msg.data.source,
                                    t.msg.data.listen)
               /\ UNCHANGED <<subscriptions, message_callbacks, inbox,
                              lastCast, lastRouted, lastDispatch>>
          [] t.cb = "publish" ->
               PublishCallback(t.other, t.msg) /\ UNCHANGED routerVars
          [] t.cb = "send" ->
               SendCallback(t.other, t.msg) /\ UNCHANGED routerVars

\* publish(topic, data).
Publish(topic, data) ==
  /\ Cast("publish", [topic |-> Chars(RouterName) \o Slash \o topic,
                      data |-> data])
  /\ UNCHANGED <<subscriptions, message_callbacks, cbTasks, lastRouted,
                 lastDispatch>>

\* _heartbeat_daemon, one turn of its loop, of the router under study.
OwnHeartbeat ==
  /\ Cast("heartbeat", [source |-> RouterName, listen |-> OwnListen])
  /\ UNCHANGED <<subscriptions, message_callbacks, cbTasks, lastRouted,
                 lastDispatch>>

\* route_message(msg): a publish is published again under the router's name;
\* a send, a request and a heartbeat are passed over.
RouteMessageDispatching(msg) ==
  /\ lastRouted' = msg
  /\ IF msg.type \in {"publish", "send"}
       THEN /\ lastDispatch' = [msg |-> msg, via |-> msg.type,
                                started |-> StartTasks(msg.data.topic, 1),
                                args |-> <<msg.data.topic, msg.data.data>>,
                                called |-> InvokeCallbacks(1)]
            /\ UNCHANGED <<lastCast, inbox>>
       ELSE UNCHANGED <<lastCast, inbox, lastDispatch>>
  /\ UNCHANGED <<subscriptions, message_callbacks, cbTasks>>

RouteMessage(msg) ==
  /\ lastRouted' = msg
  /\ IF msg.type = "publish"
       THEN Cast("publish", [topic |-> Chars(RouterName) \o Slash
                                          \o msg.data.topic,
                             data |-> msg.data.data])
       ELSE UNCHANGED <<lastCast, inbox>>
  /\ UNCHANGED <<subscriptions, message_callbacks, cbTasks, lastDispatch>>

\* ------------------------------------------------------------ Router.send
\* A caller of send() runs connect() when dest has no connection, with the
\* connect() actions above, then writes.  Connection.write calls the socket's
\* send at once, so the write is made in the step that gets to it; the caller
\* then awaits its completion.
NoReq == [dest |-> NoName, topic |-> <<>>, data |-> 0]
SendTopics == {blarg}
SendData == {27}

SendInit ==
  /\ sendPc = [c \in Callers |-> "-"]
  /\ sendReq = [c \in Callers |-> NoReq]
  /\ hadConn = [c \in Callers |-> FALSE]
  /\ written = [c \in Callers |-> <<>>]

\* Lines 333-338 of send(): the message, written to the connection the table
\* holds for dest at this moment.
SendMessage(req) ==
  Message(RouterName, "send",
          [topic |-> Chars(RouterName) \o Slash \o req.topic, data |-> req.data])

Write(c, req, conns) ==
  /\ written' = [written EXCEPT ![c] =
                   Append(@, [conn |-> conns[req.dest], msg |-> SendMessage(req)])]
  /\ sendPc' = [sendPc EXCEPT ![c] = "writing"]

\* send(dest, topic, data), up to its first await.
SendAlwaysConnects(c, dest, topic, data) ==
  LET req == [dest |-> dest, topic |-> topic, data |-> data]
  IN /\ pc[c] = "idle"
     /\ sendPc[c] = "-"
     /\ sendReq' = [sendReq EXCEPT ![c] = req]
     /\ hadConn' = [hadConn EXCEPT ![c] = dest \in DOMAIN connections]
     /\ Connect(c, dest)
     /\ sendPc' = [sendPc EXCEPT ![c] = "in_connect"]
     /\ UNCHANGED written

Send(c, dest, topic, data) ==
  LET req == [dest |-> dest, topic |-> topic, data |-> data]
  IN /\ pc[c] = "idle"
     /\ sendPc[c] = "-"
     /\ sendReq' = [sendReq EXCEPT ![c] = req]
     /\ hadConn' = [hadConn EXCEPT ![c] = dest \in DOMAIN connections]
     /\ IF dest \notin DOMAIN connections
          THEN /\ Connect(c, dest)
               /\ sendPc' = [sendPc EXCEPT ![c] = "in_connect"]
               /\ UNCHANGED written
          ELSE /\ Write(c, req, connections)
               /\ pc' = [pc EXCEPT ![c] = "sending"]
               /\ UNCHANGED <<peers, pending_connections, connections,
                              expireTasks, HEARTBEAT_EXPIRE, arg, target,
                              futDone, age, hbSince, resolvedBy>>

\* What a step of connect() means to the send() that called it: when
\* connect() returns, send() goes on to write; what connect() raises leaves
\* send() too.
SendAfterConnect(c) ==
  IF sendPc[c] # "in_connect" \/ pc'[c] \in {"waiting", "connecting"}
    THEN UNCHANGED sendVars
  ELSE IF pc'[c] = "done"
    THEN Write(c, sendReq[c], connections') /\ UNCHANGED <<sendReq, hadConn>>
  ELSE /\ sendPc' = [sendPc EXCEPT ![c] = "raised"]
       /\ UNCHANGED <<sendReq, hadConn, written>>

\* The write completes and send() returns, or the write raises, or the task
\* is cancelled while it awaits the write.
SendReturns(c) ==
  /\ sendPc[c] = "writing"
  /\ sendPc' = [sendPc EXCEPT ![c] = "returned"]
  /\ UNCHANGED <<sendReq, hadConn, written, routerVars>>

SendWriteFails(c) ==
  /\ sendPc[c] = "writing"
  /\ sendPc' = [sendPc EXCEPT ![c] = "raised"]
  /\ UNCHANGED <<sendReq, hadConn, written, routerVars>>

\* -------------------------------------------------------------- AsyncSocket
\* One AsyncSocket.  Every send*/recv* attribute access builds, in _wrap_io,
\* a wrapper with a future of its own; the caller calls the wrapper at once
\* and awaits the future.  The event loop keeps one reader and one writer
\* callback per fd: add_reader/add_writer replace the one registered.
Ops == 1 .. NumOps
\* lastWrapper.op is the operation whose wrapper ran in the last step (0 when
\* the step was none), lastWrapper.func whether it invoked the socket call.
NoWrapper == [op |-> 0, func |-> FALSE]

SockInit ==
  /\ opState = [o \in Ops |-> "new"]
  /\ opDir = [o \in Ops |-> "-"]
  /\ reader = 0
  /\ writer = 0
  /\ rxData = 0
  /\ txRoom = TRUE
  /\ sockError = FALSE
  /\ lastWrapper = NoWrapper

\* What the socket call of operation o can do now: raise BlockingIOError or
\* InterruptedError ("block"), raise another error, or return a result.
Outcomes(d) ==
  IF sockError THEN {"error", "block"}
  ELSE IF d = "recv" THEN (IF rxData > 0 THEN {"result", "block"} ELSE {"block"})
  ELSE (IF txRoom THEN {"result", "block"} ELSE {"block"})

\* wrapper, from its try statement on: the socket call is invoked; the
\* wrapper is registered again when the call would block, else the future is
\* resolved with the result or the error.
TryCall(o, d) ==
  \E out \in Outcomes(d) :
    /\ opState' = [opState EXCEPT ![o] =
                     CASE out = "block" -> "pending"
                       [] out = "result" -> "done"
                       [] out = "error" -> "error"]
    /\ reader' = IF d = "recv"
                   THEN (IF out = "block" THEN o ELSE 0) ELSE reader
    /\ writer' = IF d = "send"
                   THEN (IF out = "block" THEN o ELSE 0) ELSE writer
    /\ rxData' = IF d = "recv" /\ out = "result"
                   THEN rxData - 1 ELSE rxData
    /\ IF d = "send" /\ out = "result"
         THEN txRoom' \in BOOLEAN ELSE txRoom' = txRoom
    /\ lastWrapper' = [op |-> o, func |-> TRUE]

WrapperNoCancelCheck(o, d) ==
  /\ TryCall(o, d)
  /\ UNCHANGED sockError

\* wrapper(*args): deregister the fd, return if the future is cancelled, try
\* the call.
Wrapper(o, d) ==
  /\ IF opState[o] = "cancelled"
       THEN /\ reader' = IF d = "recv" THEN 0 ELSE reader
            /\ writer' = IF d = "send" THEN 0 ELSE writer
            /\ lastWrapper' = [op |-> o, func |-> FALSE]
            /\ UNCHANGED <<opState, rxData, txRoom>>
       ELSE TryCall(o, d)
  /\ UNCHANGED sockError

\* sock.recv*(...) or sock.send*(...) is called for a new operation.
StartOp(o, d) ==
  /\ opState[o] = "new"
  /\ opDir' = [opDir EXCEPT ![o] = d]
  /\ Wrapper(o, d)

\* The event loop finds the fd readable and calls the registered reader.
ReadReady ==
  /\ reader # 0
  /\ rxData > 0 \/ sockError
  /\ Wrapper(reader, "recv")
  /\ UNCHANGED opDir

\* The event loop finds the fd writable and calls the registered writer.
WriteReady ==
  /\ writer # 0
  /\ txRoom \/ sockError
  /\ Wrapper(writer, "send")
  /\ UNCHANGED opDir

\* The task awaiting the operation's future is cancelled, and with it the
\* future.
CancelOp(o) ==
  /\ opState[o] = "pending"
  /\ opState' = [opState EXCEPT ![o] = "cancelled"]
  /\ lastWrapper' = NoWrapper
  /\ UNCHANGED <<opDir, reader, writer, rxData, txRoom, sockError>>

\* The environment: a datagram arrives, the send buffer drains, the socket
\* fails.
DataArrives ==
  /\ rxData < MaxData
  /\ rxData' = rxData + 1
  /\ lastWrapper' = NoWrapper
  /\ UNCHANGED <<opState, opDir, reader, writer, txRoom, sockError>>

BufferDrains ==
  /\ ~txRoom
  /\ txRoom' = TRUE
  /\ lastWrapper' = NoWrapper
  /\ UNCHANGED <<opState, opDir, reader, writer, rxData, sockError>>

SocketFails ==
  /\ ~sockError
  /\ sockError' = TRUE
  /\ lastWrapper' = NoWrapper
  /\ UNCHANGED <<opState, opDir, reader, writer, rxData, txRoom>>

\* --------------------------------------------------------- key_to_multicast
\* The digest is a function from byte positions to bytes; an address is the
\* sequence of its packed bytes, as ip_address() takes it.
ByteSamples == {0, 1, 63, 64, 127, 128, 191, 192, 255}
FillSamples == {0, 171, 255}
Families == {"ipv4", "ipv6", "ipx"}
NoResult == [status |-> "-", addr |-> <<>>, port |-> 0]

Digests ==
  { [i \in 0 .. 14 |-> IF i = 0 THEN b0 ELSE IF i = 1 THEN b1
                        ELSE IF i = 3 THEN b3 ELSE f] :
      b0 \in ByteSamples, b1 \in ByteSamples, b3 \in ByteSamples,
      f \in FillSamples }

\* No key has been converted yet.
NetInit ==
  /\ digest = [i \in 0 .. 14 |-> 0]
  /\ family = "ipv4"
  /\ multicast = NoResult

\* a | b on integers of w bits.
RECURSIVE BitOr(_, _, _)
BitOr(a, b, w) ==
  IF w = 0 THEN 0
  ELSE (IF a % 2 = 1 \/ b % 2 = 1 THEN 1 ELSE 0)
       + 2 * BitOr(a \div 2, b \div 2, w - 1)

\* digest[a:b]
Slice(d, a, b) == [i \in 1 .. (b - a) |-> d[a + i - 1]]

\* int.from_bytes(digest[0:2], byteorder='little') | 0xC000
EphemeralMask == 49152
PortBigEndian(d) == BitOr(256 * d[0] + d[1], EphemeralMask, 16)
Port(d) == BitOr(d[0] + 256 * d[1], EphemeralMask, 16)

key_to_multicast(d, fam) ==
  IF fam = "ipv4"
    THEN [status |-> "ok", addr |-> <<224, 0, 0>> \o Slice(d, 3, 4),
          port |-> Port(d)]
  ELSE IF fam = "ipv6"
    THEN [status |-> "ok", addr |-> <<255, 19, 0, 0>> \o Slice(d, 3, 15),
          port |-> Port(d)]
  ELSE [status |-> "ValueError", addr |-> <<>>, port |-> 0]

\* ip_address(group).is_multicast, the test of Multicaster.__init__:
\* 224.0.0.0/4 for IPv4 (4 bytes), ff00::/8 for IPv6 (16 bytes).
IsMulticast(addr) ==
  IF Len(addr) = 4 THEN addr[1] \in 224 .. 239
  ELSE Len(addr) = 16 /\ addr[1] = 255

\* The key at hand is converted.
KeyToMulticast ==
  /\ multicast.status = "-"
  /\ multicast' = key_to_multicast(digest, family)
  /\ UNCHANGED <<digest, family>>

\* ------------------------------------------------------------- Multicaster
\* ip_info(addr): the family of an address, here of its packed bytes.
ip_info(addr) == IF Len(addr) = 16 THEN "AF_INET6" ELSE "AF_INET"

\* The (group, port) pairs a Multicaster is constructed with: what
\* key_to_multicast derives, as Router.__init__ passes it, and groups that
\* are not multicast addresses (10.0.0.5, fe80::).
McDigests == { [i \in 0 .. 14 |-> b] : b \in {1, 255} }
GroupSamples ==
  { [group |-> key_to_multicast(d, f).addr, port |-> key_to_multicast(d, f).port] :
      d \in McDigests, f \in {"ipv4", "ipv6"} }
    \cup { [group |-> <<10, 0, 0, 5>>, port |-> 5000],
           [group |-> <<254, 128>> \o [i \in 1 .. 14 |-> 0], port |-> 5000] }

Casters == 1 .. NumCasters
NoCaster == [state |-> "-", group |-> <<>>, port |-> 0,
             udp_recv |-> 0, udp_send |-> 0, stops |-> 0]

McInit ==
  /\ casters = [m \in Casters |-> NoCaster]
  /\ sockets = <<>>
  /\ syscalls = [m \in Casters |-> <<>>]

\* A datagram socket as the OS holds it: who opened it, the port it is bound
\* to (0: not bound), the request it joined its group with, and the group.
Socket(m, fam, port, joined, group) ==
  [owner |-> m, family |-> fam, open |-> TRUE, port |-> port,
   joined |-> joined, member |-> group]

\* The join request of each family.
JoinOf(fam) == IF fam = "AF_INET6" THEN "IPV6_JOIN_GROUP" ELSE "IP_ADD_MEMBERSHIP"

\* Multicaster(group, port): a group that is not multicast raises before any
\* socket exists; else one socket is bound and joins the group, and for IPv4
\* a second, unbound socket is opened for sending.
MulticasterInit(m, group, port) ==
  LET fam == ip_info(group)
      sock == Len(sockets) + 1
  IN /\ casters[m].state = "-"
     /\ IF ~IsMulticast(group)
          THEN /\ casters' = [casters EXCEPT ![m].state = "ValueError"]
               /\ UNCHANGED sockets
          ELSE IF fam = "AF_INET6"
            THEN /\ sockets' = Append(sockets,
                                      Socket(m, fam, port, JoinOf(fam), group))
                 /\ casters' = [casters EXCEPT ![m] =
                                  [state |-> "running", group |-> group,
                                   port |-> port, udp_recv |-> sock,
                                   udp_send |-> sock, stops |-> 0]]
            ELSE /\ sockets' = sockets
                                 \o << Socket(m, fam, port, JoinOf(fam), group),
                                       Socket(m, fam, 0, "-", <<>>) >>
                 /\ casters' = [casters EXCEPT ![m] =
                                  [state |-> "running", group |-> group,
                                   port |-> port, udp_recv |-> sock,
                                   udp_send |-> sock + 1, stops |-> 0]]
     /\ UNCHANGED syscalls

\* The system calls of stop(), in order.
SetSockOpt(s, level, opt, group) ==
  [call |-> "setsockopt", sock |-> s, level |-> level, opt |-> opt,
   group |-> group]
Close(s) ==
  [call |-> "close", sock |-> s, level |-> "-", opt |-> "-", group |-> <<>>]

\* What the OS holds after the calls of a sequence: a leave request ends the
\* membership, close() closes the socket.
RECURSIVE Apply(_, _)
Apply(socks, calls) ==
  IF calls = <<>> THEN socks
  ELSE LET c == Head(calls)
       IN Apply([socks EXCEPT ![c.sock] =
                   IF c.call = "close" THEN [@ EXCEPT !.open = FALSE,
                                                      !.member = <<>>]
                   ELSE [@ EXCEPT !.member = <<>>]],
                Tail(calls))

StopKeepsSendSocket(c) ==
  IF sockets[c.udp_recv].family = "AF_INET6"
    THEN << SetSockOpt(c.udp_recv, "IPPROTO_IPV6", "IPV6_LEAVE_GROUP", c.group),
            Close(c.udp_recv) >>
    ELSE << SetSockOpt(c.udp_recv, "IPPROTO_IP", "IP_DROP_MEMBERSHIP", c.group),
            Close(c.udp_recv) >>

\* Lines 186-198 of stop(), the family read off the receiving socket.
StopCalls(c) ==
  IF sockets[c.udp_recv].family = "AF_INET6"
    THEN << SetSockOpt(c.udp_recv, "IPPROTO_IPV6", "IPV6_LEAVE_GROUP", c.group),
            Close(c.udp_recv) >>
    ELSE << SetSockOpt(c.udp_recv, "IPPROTO_IP", "IP_DROP_MEMBERSHIP", c.group),
            Close(c.udp_recv),
            Close(c.udp_send) >>

\* stop().  On a Multicaster already stopped the leave request is made on a
\* closed socket: setsockopt raises OSError and stop() ends there.
Stop(m) ==
  LET c == casters[m]
      calls == IF sockets[c.udp_recv].open THEN StopCalls(c)
               ELSE <<Head(StopCalls(c))>>
  IN /\ c.state \in {"running", "stopped"}
     /\ c.stops < MaxStops
     /\ syscalls' = [syscalls EXCEPT ![m] = @ \o calls]
     /\ sockets' = IF sockets[c.udp_recv].open THEN Apply(sockets, calls)
                   ELSE sockets
     /\ casters' = [casters EXCEPT ![m].state = "stopped",
                                   ![m].stops = @ + 1]

\* ------------------------------------------- SerialConnection, VESC packets
\* The receive task of a SerialConnection with encoding 'vesc' on an open
\* port.  StreamReader.read(n) waits for data and returns at most n bytes of
\* what is there; read(0) returns no bytes at once.
SerialBytes == {0, 2, 3}
NoHeader == [seen |-> FALSE, byte |-> 0, skipped |-> FALSE]

SerialInit ==
  /\ serialIn = <<>>
  /\ rxPc = "header"
  /\ rxHeader = <<>>
  /\ rxLength = <<>>
  /\ lastHeader = NoHeader
  /\ lastDecode = <<>>
  /\ packet_callback = "none"

\* packet_callback is assigned, as SerialDevice.__init__ does: a callback
\* that returns, or one that raises (handle_packet reads packet['type'],
\* which a VESC packet does not have).
SetPacketCallback(k) ==
  /\ packet_callback = "none"
  /\ packet_callback' = k
  /\ UNCHANGED <<serialIn, rxPc, rxHeader, rxLength, lastHeader, lastDecode>>

\* int.from_bytes(b, byteorder='big')
RECURSIVE to_int(_)
to_int(b) ==
  IF b = <<>> THEN 0
  ELSE 256 * to_int(SubSeq(b, 1, Len(b) - 1)) + b[Len(b)]

\* The peripheral sends a byte.
SerialByteArrives(b) ==
  /\ Len(serialIn) < MaxSerial
  /\ serialIn' = Append(serialIn, b)
  /\ UNCHANGED <<rxPc, rxHeader, rxLength, lastHeader, lastDecode,
                 packet_callback>>

\* `not to_int(header) == 2 or to_int(header) == 3`: not binds tighter than
\* or, so the test is (not h == 2) or (h == 3).
Skips(header) == (~(to_int(header) = 2)) \/ (to_int(header) = 3)

\* header = await read(1), and the test of the header.
ReadHeader ==
  LET header == SubSeq(serialIn, 1, 1)
  IN /\ rxPc = "header"
     /\ serialIn # <<>>
     /\ serialIn' = Tail(serialIn)
     /\ lastHeader' = [seen |-> TRUE, byte |-> header[1],
                       skipped |-> Skips(header)]
     /\ IF Skips(header)
          THEN UNCHANGED <<rxPc, rxHeader>>
          ELSE rxPc' = "length" /\ rxHeader' = header
     /\ UNCHANGED <<rxLength, lastDecode, packet_callback>>

\* length = await read(to_int(header) - 1)
ReadLength ==
  LET n == to_int(rxHeader) - 1
  IN /\ rxPc = "length"
     /\ IF n = 0
          THEN rxLength' = <<>> /\ UNCHANGED serialIn
          ELSE /\ serialIn # <<>>
               /\ \E k \in 1 .. Min({n, Len(serialIn)}) :
                    /\ rxLength' = SubSeq(serialIn, 1, k)
                    /\ serialIn' = SubSeq(serialIn, k + 1, Len(serialIn))
     /\ rxPc' = "payload"
     /\ UNCHANGED <<rxHeader, lastHeader, lastDecode, packet_callback>>

\* packet = await read(to_int(length) + 4), pyvesc.decode of the three parts,
\* and the callback.  What decode or the callback raises is no
\* SerialException: it ends the task.
ReadPayload(decodes) ==
  LET n == to_int(rxLength) + 4
  IN /\ rxPc = "payload"
     /\ serialIn # <<>>
     /\ \E k \in 1 .. Min({n, Len(serialIn)}) :
          /\ lastDecode' = rxHeader \o rxLength \o SubSeq(serialIn, 1, k)
          /\ serialIn' = SubSeq(serialIn, k + 1, Len(serialIn))
     /\ rxPc' = IF decodes /\ packet_callback # "raises" THEN "header"
                ELSE "ended"
     /\ rxHeader' = <<>>
     /\ rxLength' = <<>>
     /\ UNCHANGED <<lastHeader, packet_callback>>

\* ------------------------------------------------- Message: JSON and bytes
\* Python values: str, int, None, bool, list, tuple, dict (a sequence of
\* <<key, value>> pairs in insertion order).
PyStr(s) == [k |-> "str", s |-> s]
PyInt(n) == [k |-> "int", n |-> n]
PyNull == [k |-> "null"]
PyBool(b) == [k |-> "bool", b |-> b]
PyList(items) == [k |-> "list", items |-> items]
PyTuple(items) == [k |-> "tuple", items |-> items]
PyDict(pairs) == [k |-> "dict", pairs |-> pairs]

\* JSON text is the sequence of its tokens.
Tok(t) == [t |-> t]
TokStr(s) == [t |-> "str", s |-> s]
TokInt(n) == [t |-> "int", n |-> n]
TokBool(b) == [t |-> "bool", b |-> b]

\* str(n) for a one-digit n: the JSON key json.dumps writes for an int key.
IntStr(n) == <<"0", "1", "2", "3", "4", "5", "6", "7", "8", "9">>[n + 1]
KeyStr(key) == IF key.k = "int" THEN IntStr(key.n) ELSE key.s

\* json.dumps(v): a tuple is written as an array, a dict key as a string.
RECURSIVE Dumps(_), DumpItems(_), DumpPairs(_)
Dumps(v) ==
  CASE v.k = "str" -> <<TokStr(v.s)>>
    [] v.k = "int" -> <<TokInt(v.n)>>
    [] v.k = "null" -> <<Tok("null")>>
    [] v.k = "bool" -> <<TokBool(v.b)>>
    [] v.k \in {"list", "tuple"} ->
         <<Tok("[")>> \o DumpItems(v.items) \o <<Tok("]")>>
    [] v.k = "dict" -> <<Tok("{")>> \o DumpPairs(v.pairs) \o <<Tok("}")>>

DumpItems(items) ==
  IF items = <<>> THEN <<>>
  ELSE Dumps(Head(items))
       \o (IF Len(items) > 1 THEN <<Tok(",")>> ELSE <<>>)
       \o DumpItems(Tail(items))

DumpPairs(pairs) ==
  IF pairs = <<>> THEN <<>>
  ELSE <<TokStr(KeyStr(Head(pairs)[1])), Tok(":")>> \o Dumps(Head(pairs)[2])
       \o (IF Len(pairs) > 1 THEN <<Tok(",")>> ELSE <<>>)
       \o DumpPairs(Tail(pairs))

\* dict[key] = val: a key already present keeps its place.
SetKey(pairs, key, val) ==
  IF \E i \in 1 .. Len(pairs) : pairs[i][1] = key
    THEN [i \in 1 .. Len(pairs) |->
            IF pairs[i][1] = key THEN <<key, val>> ELSE pairs[i]]
    ELSE Append(pairs, <<key, val>>)

\* json.loads, by recursive descent: each operator returns whether it parsed,
\* the value, and the tokens left.
ParseFail == [ok |-> FALSE, val |-> PyNull, rest |-> <<>>]
Parsed(val, rest) == [ok |-> TRUE, val |-> val, rest |-> rest]

RECURSIVE ParseValue(_), ParseItems(_, _), ParsePairs(_, _)
ParseValue(toks) ==
  IF toks = <<>> THEN ParseFail
  ELSE LET h == Head(toks)
           r == Tail(toks)
       IN CASE h.t = "str" -> Parsed(PyStr(h.s), r)
            [] h.t = "int" -> Parsed(PyInt(h.n), r)
            [] h.t = "null" -> Parsed(PyNull, r)
            [] h.t = "bool" -> Parsed(PyBool(h.b), r)
            [] h.t = "[" -> IF r # <<>> /\ Head(r).t = "]"
                              THEN Parsed(PyList(<<>>), Tail(r))
                              ELSE ParseItems(r, <<>>)
            [] h.t = "{" -> IF r # <<>> /\ Head(r).t = "}"
                              THEN Parsed(PyDict(<<>>), Tail(r))
                              ELSE ParsePairs(r, <<>>)
            [] OTHER -> ParseFail

ParseItems(toks, acc) ==
  LET v == ParseValue(toks)
  IN IF ~v.ok \/ v.rest = <<>> THEN ParseFail
     ELSE IF Head(v.rest).t = ","
       THEN ParseItems(Tail(v.rest), Append(acc, v.val))
     ELSE IF Head(v.rest).t = "]"
       THEN Parsed(PyList(Append(acc, v.val)), Tail(v.rest))
     ELSE ParseFail

ParsePairs(toks, acc) ==
  IF Len(toks) < 2 \/ toks[1].t # "str" \/ toks[2].t # ":" THEN ParseFail
  ELSE LET key == PyStr(toks[1].s)
           v == ParseValue(SubSeq(toks, 3, Len(toks)))
       IN IF ~v.ok \/ v.rest = <<>> THEN ParseFail
          ELSE IF Head(v.rest).t = ","
            THEN ParsePairs(Tail(v.rest), SetKey(acc, key, v.val))
          ELSE IF Head(v.rest).t = "}"
            THEN Parsed(PyDict(SetKey(acc, key, v.val)), Tail(v.rest))
          ELSE ParseFail

\* key in packet, for a str key: a key of a dict, an item of a list, a
\* substring of a str (of the strings in use only "source type data" has
\* another as a substring).
In(key, packet) ==
  CASE packet.k = "dict" ->
         \E i \in 1 .. Len(packet.pairs) : packet.pairs[i][1] = PyStr(key)
    [] packet.k = "list" ->
         \E i \in 1 .. Len(packet.items) : packet.items[i] = PyStr(key)
    [] packet.k = "str" -> packet.s = key \/ packet.s = "source type data"

Get(packet, key) ==
  packet.pairs[CHOOSE i \in 1 .. Len(packet.pairs) :
                 packet.pairs[i][1] = PyStr(key)][2]

\* What a call of from_bytes or from_string comes to: a Message, or an
\* exception of the named type.
NoPyMsg == Message(PyNull, PyNull, PyNull)
NotCalled == [status |-> "-", msg |-> NoPyMsg]
Raised(exc) == [status |-> exc, msg |-> NoPyMsg]
Returned(msg) == [status |-> "ok", msg |-> msg]

\* Message.from_string(msg).
from_stringSwapped(toks) ==
  LET p == ParseValue(toks)
  IN IF ~p.ok \/ p.rest # <<>> THEN Raised("ValueError")
     ELSE IF p.val.k \in {"int", "null", "bool"} THEN Raised("TypeError")
     ELSE IF \E key \in {"source", "type", "data"} : ~In(key, p.val)
       THEN Raised("ValueError")
     ELSE IF p.val.k = "dict"
       THEN Returned(Message(Get(p.val, "type"), Get(p.val, "source"),
                             Get(p.val, "data")))
     ELSE Raised("TypeError")

from_string(toks) ==
  LET p == ParseValue(toks)
  IN IF ~p.ok \/ p.rest # <<>> THEN Raised("ValueError")
     ELSE IF p.val.k \in {"int", "null", "bool"} THEN Raised("TypeError")
     ELSE IF \E key \in {"source", "type", "data"} : ~In(key, p.val)
       THEN Raised("ValueError")
     ELSE IF p.val.k = "dict"
       THEN Returned(Message(Get(p.val, "source"), Get(p.val, "type"),
                             Get(p.val, "data")))
     ELSE Raised("TypeError")

\* Bytes are UTF-8 or not; those that are, are the text they decode to.
Bytes(toks) == [utf8 |-> TRUE, toks |-> toks]
BadBytes == [utf8 |-> FALSE, toks |-> <<>>]

\* Message.from_bytes(msg).
from_bytes(b) == IF b.utf8 THEN from_string(b.toks) ELSE Raised("ValueError")

\* Message.to_json() and Message.encode().
to_json(m) ==
  Dumps(PyDict(<< <<PyStr("source"), m.source>>, <<PyStr("type"), m.type>>,
                  <<PyStr("data"), m.data>> >>))
encode(m) == Bytes(to_json(m))

\* Inputs of from_bytes, each with what it is: bytes that are not UTF-8,
\* text that is not JSON, a JSON value without all of source, type and data,
\* a complete packet, and JSON values that are no object but have the three
\* names in them.
Packet(source, type, data) ==
  <<Tok("{"), TokStr("source"), Tok(":")>> \o source \o
  <<Tok(","), TokStr("type"), Tok(":")>> \o type \o
  <<Tok(","), TokStr("data"), Tok(":")>> \o data \o <<Tok("}")>>

WireSamples ==
  { [class |-> "badutf8", bytes |-> BadBytes],
    [class |-> "badjson", bytes |-> Bytes(<<>>)],
    [class |-> "badjson", bytes |-> Bytes(<<Tok("{")>>)],
    [class |-> "badjson", bytes |-> Bytes(<<Tok("["), TokInt(1)>>)],
    [class |-> "badjson", bytes |-> Bytes(<<TokInt(1), TokInt(2)>>)],
    [class |-> "badjson",
     bytes |-> Bytes(<<Tok("{"), TokInt(1), Tok(":"), TokInt(2), Tok("}")>>)],
    [class |-> "badjson",
     bytes |-> Bytes(<<Tok("{"), TokStr("source"), Tok(":"), TokInt(1)>>)],
    [class |-> "missing", bytes |-> Bytes(<<Tok("{"), Tok("}")>>)],
    [class |-> "missing",
     bytes |-> Bytes(<<Tok("{"), TokStr("source"), Tok(":"), TokStr("rover"),
                       Tok(","), TokStr("type"), Tok(":"), TokStr("publish"),
                       Tok("}")>>)],
    [class |-> "missing", bytes |-> Bytes(<<Tok("["), TokInt(1), Tok("]")>>)],
    [class |-> "missing",
     bytes |-> Bytes(<<Tok("["), TokStr("source"), Tok(","), TokStr("type"),
                       Tok("]")>>)],
    [class |-> "missing", bytes |-> Bytes(<<TokStr("rover")>>)],
    [class |-> "missing", bytes |-> Bytes(<<TokInt(5)>>)],
    [class |-> "missing", bytes |-> Bytes(<<Tok("null")>>)],
    [class |-> "missing", bytes |-> Bytes(<<TokBool(TRUE)>>)],
    [class |-> "complete",
     bytes |-> Bytes(Packet(<<TokStr("rover")>>, <<TokStr("publish")>>,
                            <<Tok("["), TokInt(1), Tok("]")>>))],
    [class |-> "complete",
     bytes |-> Bytes(Packet(<<TokStr("rover")>>, <<TokStr("publish")>>,
                            <<Tok("null")>>)
                     )],
    [class |-> "named",
     bytes |-> Bytes(<<Tok("["), TokStr("source"), Tok(","), TokStr("type"),
                       Tok(","), TokStr("data"), Tok("]")>>)],
    [class |-> "named", bytes |-> Bytes(<<TokStr("source type data")>>)] }

\* Data of the messages to encode: JSON's own values, and Python values
\* json.dumps writes though JSON has no such value (a tuple, an int key).
DataSamples ==
  { PyInt(27), PyStr("x"), PyNull, PyBool(TRUE), PyList(<<>>), PyDict(<<>>),
    PyList(<<PyInt(1), PyStr("x")>>),
    PyDict(<< <<PyStr("topic"), PyStr("rover/blarg")>>,
              <<PyStr("data"), PyList(<<PyInt(1), PyNull>>)>> >>),
    PyTuple(<<PyInt(1), PyInt(2)>>),
    PyList(<<PyTuple(<<PyInt(1)>>)>>),
    PyDict(<< <<PyInt(1), PyStr("x")>> >>) }

MessageSamples ==
  { Message(PyStr("rover"), PyStr(t), d) :
      t \in {"publish", "send"}, d \in DataSamples }

NoWire == [class |-> "-", bytes |-> BadBytes]
NoBytes == [utf8 |-> FALSE, toks |-> <<>>]

\* Nothing has been decoded or encoded.
MsgInit ==
  /\ wire = NoWire
  /\ decoded = NotCalled
  /\ message = NoPyMsg
  /\ encoded = NoBytes
  /\ echoed = NotCalled

\* Message.from_bytes(wire).
FromBytes ==
  /\ decoded.status = "-"
  /\ decoded' = from_bytes(wire.bytes)
  /\ UNCHANGED <<wire, message, encoded, echoed>>

\* message.encode(), and Message.from_bytes of what it returned.
Encode ==
  /\ encoded = NoBytes
  /\ encoded' = encode(message)
  /\ UNCHANGED <<wire, decoded, message, echoed>>

DecodeEncoded ==
  /\ encoded # NoBytes
  /\ echoed.status = "-"
  /\ echoed' = from_bytes(encoded)
  /\ UNCHANGED <<wire, decoded, message, encoded>>

\* ------------------------------------------ the receive loops, from bytes
\* Caster._recv_daemon and Listener._handle_connection with what the sockets
\* hand them: bytes, which Message.from_bytes decodes or fails to.
Wire(source, type, data) == Bytes(Packet(source, type, data))
TopicData == <<Tok("{"), TokStr("topic"), Tok(":"), TokStr("rover/blarg"),
               Tok(","), TokStr("data"), Tok(":"), TokInt(27), Tok("}")>>
HeartbeatData == <<Tok("{"), TokStr("source"), Tok(":"), TokStr("rover"),
                   Tok(","), TokStr("listen"), Tok(":"), TokInt(5), Tok("}")>>

\* Datagrams that reach the discovery socket.
DatagramSamples ==
  { BadBytes,
    Bytes(<<Tok("{"), TokStr("source"), Tok(":"), TokInt(1)>>),
    Bytes(<<Tok("null")>>),
    Wire(<<TokStr("uuid-rover")>>, <<TokStr("request")>>, <<Tok("null")>>),
    Wire(<<TokStr("uuid-rover")>>, <<Tok("["), TokStr("publish"), Tok("]")>>,
         TopicData),
    Wire(<<TokStr("uuid-rover")>>, <<TokStr("publish")>>, <<TokInt(27)>>),
    Wire(<<TokStr("uuid-rover")>>, <<TokStr("publish")>>, TopicData),
    Wire(<<TokStr("uuid-rover")>>, <<TokStr("heartbeat")>>, HeartbeatData),
    Wire(<<TokStr(Uuid)>>, <<TokStr("publish")>>, TopicData) }

\* What a read on an accepted connection returns: bytes, or an OSError.
ReadError == [err |-> TRUE, bytes |-> BadBytes]
ReadSamples ==
  {ReadError} \cup
  { [err |-> FALSE, bytes |-> b] :
      b \in { BadBytes, Bytes(<<>>), Bytes(<<Tok("null")>>),
              Wire(<<TokStr("rover")>>, <<TokStr("publish")>>, TopicData),
              Wire(<<TokStr("rover")>>, <<TokStr("send")>>, TopicData),
              Wire(<<TokStr("rover")>>, <<TokStr("send")>>, <<TokInt(27)>>) } }

Conns == 1 .. MaxConns
NoRead == [conn |-> 0, outcome |-> "-"]

LoopInit ==
  /\ sockQueue = <<>>
  /\ recvLoop = "running"
  /\ loopTasks = <<>>
  /\ failures = {}
  /\ survived = {}
  /\ connState = [c \in Conns |-> "none"]
  /\ acceptLoop = "running"
  /\ lastRead = NoRead

\* type in self._callbacks: hashing a list or a dict raises TypeError.
Unhashable(v) == v.k \in {"list", "dict"}
HasCallback(v, callbacks) == v.k = "str" /\ v.s \in callbacks

\* The callbacks read msg.data['...'] first; whether that raises.
CallbackRaises(cb, msg) ==
  IF msg.data.k # "dict" THEN TRUE
  ELSE IF cb = "heartbeat"
    THEN ~In("source", msg.data) \/ ~In("listen", msg.data)
  ELSE ~In("topic", msg.data) \/ ~In("data", msg.data)

\* A datagram reaches the discovery socket.
DatagramReceived(b) ==
  /\ Len(sockQueue) < MaxDgrams
  /\ sockQueue' = Append(sockQueue, b)
  /\ UNCHANGED <<recvLoop, failures, survived, loopTasks, listenVars>>

\* What one turn of the loop of _recv_daemon does with the datagram at the
\* head of the queue.
RecvOutcome(b) ==
  LET r == from_bytes(b)
  IN IF r.status # "ok" THEN "decode"
     ELSE IF Unhashable(r.msg.type) THEN "lookup"
     ELSE IF ~HasCallback(r.msg.type, CasterCallbacks) THEN "notype"
     ELSE IF r.msg.source = PyStr(Uuid) THEN "own"
     ELSE "task"

\* One turn of the loop of _recv_daemon: _recv() and the tests raise into the
\* except clause, which prints and goes round again.
RecvLoopNoExcept ==
  LET b == Head(sockQueue)
      out == RecvOutcome(b)
  IN /\ recvLoop = "running"
     /\ sockQueue # <<>>
     /\ Len(loopTasks) < MaxLoopTasks
     /\ sockQueue' = Tail(sockQueue)
     /\ recvLoop' = IF out \in {"decode", "lookup"} THEN "ended" ELSE recvLoop
     /\ failures' = IF out \in {"decode", "lookup", "notype"}
                      THEN failures \cup {out} ELSE failures
     /\ IF out = "task"
          THEN /\ loopTasks' = Append(loopTasks,
                                      [cb |-> from_bytes(b).msg.type.s,
                                       msg |-> from_bytes(b).msg])
               /\ survived' = failures
          ELSE UNCHANGED <<loopTasks, survived>>
     /\ UNCHANGED listenVars

RecvLoop ==
  LET b == Head(sockQueue)
      out == RecvOutcome(b)
  IN /\ recvLoop = "running"
     /\ sockQueue # <<>>
     /\ Len(loopTasks) < MaxLoopTasks
     /\ sockQueue' = Tail(sockQueue)
     /\ recvLoop' = recvLoop
     /\ failures' = IF out \in {"decode", "lookup", "notype"}
                      THEN failures \cup {out} ELSE failures
     /\ IF out = "task"
          THEN /\ loopTasks' = Append(loopTasks,
                                      [cb |-> from_bytes(b).msg.type.s,
                                       msg |-> from_bytes(b).msg])
               /\ survived' = failures
          ELSE UNCHANGED <<loopTasks, survived>>
     /\ UNCHANGED listenVars

\* The event loop runs the oldest callback task; what the callback raises
\* ends the task and nothing else.
RunLoopTask ==
  /\ loopTasks # <<>>
  /\ loopTasks' = Tail(loopTasks)
  /\ failures' = IF CallbackRaises(Head(loopTasks).cb, Head(loopTasks).msg)
                   THEN failures \cup {"callback"} ELSE failures
  /\ lastRead' = NoRead
  /\ UNCHANGED <<sockQueue, recvLoop, survived, connState, acceptLoop>>

\* Listener._listener, one turn of its loop: a connection is accepted and a
\* task running _handle_connection is created for it; or accept() raises, which
\* nothing in _listener catches.
Accept(c) ==
  /\ acceptLoop = "running"
  /\ connState[c] = "none"
  /\ \A d \in Conns : d < c => connState[d] # "none"
  /\ connState' = [connState EXCEPT ![c] = "open"]
  /\ lastRead' = NoRead
  /\ UNCHANGED <<acceptLoop, recvVars, loopTasks>>

AcceptFails ==
  /\ acceptLoop = "running"
  /\ acceptLoop' = "ended"
  /\ lastRead' = NoRead
  /\ UNCHANGED <<connState, recvVars, loopTasks>>

\* What one turn of the loop of _handle_connection does with what the read
\* came to.
ReadOutcome(r) ==
  IF r.err THEN "readerror"
  ELSE LET d == from_bytes(r.bytes)
       IN IF d.status # "ok" THEN "decodeerror"
          ELSE IF Unhashable(d.msg.type) THEN "lookuperror"
          ELSE IF HasCallback(d.msg.type, ListenerCallbacks) THEN "task"
          ELSE "ignored"

\* _handle_connection(conn), one turn of its loop: what read() or the lookup
\* raises is printed, the loop is left and the connection closed.
ConnReadClosesOnUnknown(c, r) ==
  LET out == ReadOutcome(r)
  IN /\ connState[c] = "open"
     /\ Len(loopTasks) < MaxLoopTasks
     /\ lastRead' = [conn |-> c, outcome |-> out]
     /\ connState' = [connState EXCEPT ![c] =
                        IF out = "task" THEN "open" ELSE "closed"]
     /\ loopTasks' = IF out = "task"
                       THEN Append(loopTasks,
                                   [cb |-> from_bytes(r.bytes).msg.type.s,
                                    msg |-> from_bytes(r.bytes).msg])
                       ELSE loopTasks
     /\ UNCHANGED <<acceptLoop, recvVars>>

ConnRead(c, r) ==
  LET out == ReadOutcome(r)
  IN /\ connState[c] = "open"
     /\ Len(loopTasks) < MaxLoopTasks
     /\ lastRead' = [conn |-> c, outcome |-> out]
     /\ connState' = [connState EXCEPT ![c] =
                        IF out \in {"task", "ignored"} THEN "open"
                                                        ELSE "closed"]
     /\ loopTasks' = IF out = "task"
                       THEN Append(loopTasks,
                                   [cb |-> from_bytes(r.bytes).msg.type.s,
                                    msg |-> from_bytes(r.bytes).msg])
                       ELSE loopTasks
     /\ UNCHANGED <<acceptLoop, recvVars>>

\* ------------------------------------------------------------------ claims
Registered(c) == arg[c] \in DOMAIN pending_connections
                 /\ pending_connections[arg[c]] = c

\* C1 (as stated): every caller that called connect(name) while name was
\* unknown is resumed once a heartbeat for name has been handled, and then
\* connects to the endpoint (sender address, listen port) of that heartbeat.
C1_ConnectResumesOnHeartbeat ==
  \A c \in Callers :
    /\ (pc[c] = "waiting" /\ hbSince[c]) => futDone[c]
    /\ (pc[c] = "connecting" /\ resolvedBy[c] # NoEndpoint)
          => target[c] = resolvedBy[c]

C2_ResolvedOnlyOnCreation ==
  [][\A c \in Callers :
       (~futDone[c] /\ futDone'[c])
          => (arg[c] \notin DOMAIN peers /\ arg[c] \in DOMAIN peers')]_vars

\* C3 (as stated): a caller cancelled while suspended in connect(), before a
\* heartbeat resolved it, has left no entry of its own in the pending table,
\* and no peer entry exists that no heartbeat created.
C3_CancelLeavesNoEntry ==
  \A c \in Callers :
    pc[c] = "cancelled_waiting"
       => (~Registered(c) /\ (arg[c] \in DOMAIN peers => age[arg[c]] # Never))

\* C4: a name is in the peer table exactly while a heartbeat for it was
\* handled within the last HEARTBEAT_EXPIRE ticks (at the tick the window
\* elapses the expiry is due and the entry is on its way out).
C4_PeerIffRecentHeartbeat ==
  \A n \in Names :
    /\ (age[n] # Never /\ age[n] < HEARTBEAT_EXPIRE) => n \in DOMAIN peers
    /\ n \in DOMAIN peers => (age[n] # Never /\ age[n] <= HEARTBEAT_EXPIRE)
    /\ (n \in DOMAIN peers /\ age[n] = HEARTBEAT_EXPIRE)
          => \E t \in DOMAIN expireTasks :
                expireTasks[t].name = n /\ expireTasks[t].left = 0

\* C4 witness: one peer was heard and has expired, the other is in the table
\* with part of its window gone.
C4_Witness ==
  /\ age["rover"] > HEARTBEAT_EXPIRE /\ "rover" \notin DOMAIN peers
  /\ "tester" \in DOMAIN peers /\ age["tester"] > 0
  /\ age["tester"] < HEARTBEAT_EXPIRE

\* C5 (as stated): with the default timing a broadcasting peer that was heard
\* stays in the peer table while no more than 10 heartbeats in a row are lost.
C5_TenLostTolerated ==
  \A n \in Names : (age[n] # Never /\ lost[n] <= 10) => n \in DOMAIN peers

\* C5 (amended): with the default timing a broadcasting peer that was heard
\* stays in the peer table while no more than 8 heartbeats in a row are lost.
C5_EightLostTolerated ==
  \A n \in Names : (age[n] # Never /\ lost[n] <= 8) => n \in DOMAIN peers

\* C5 witness: eight heartbeats of rover were lost in a row, the ninth is due,
\* and rover is still in the table.
C5_Witness ==
  /\ lost["rover"] = 8 /\ sleepLeft["rover"] = 0
  /\ "rover" \in DOMAIN peers

TimersOf(n) == {t \in DOMAIN expireTasks : expireTasks[t].name = n}

\* C17: at most one expiry timer is armed per name, the one the peer's record
\* names, armed by the last heartbeat handled for the name; a peer leaves the
\* table only when a full window has passed since that heartbeat.
C17_OneTimerNoStaleEviction ==
  [][\A n \in Names :
       /\ Cardinality(TimersOf(n)') <= 1
       /\ n \in DOMAIN peers' =>
            /\ TimersOf(n)' = {peers'[n].expire}
            /\ expireTasks'[peers'[n].expire].left = HEARTBEAT_EXPIRE - age'[n]
       /\ (n \in DOMAIN peers /\ n \notin DOMAIN peers')
            => age[n] = HEARTBEAT_EXPIRE]_vars

\* C17 witness: a heartbeat of rover was handled at the instant the timer of
\* the one before was due; it cancelled that timer and rover is in the table
\* with a full window ahead.
C17_Witness ==
  /\ cancelledLeft["rover"] = 0
  /\ "rover" \in DOMAIN peers
  /\ age["rover"] = 0
  /\ expireTasks[peers["rover"].expire].left = HEARTBEAT_EXPIRE

\* What "the pattern matches the topic" means for the patterns in use, said
\* without fnmatch: rover/* asks for the prefix rover/, */blarg for the
\* suffix /blarg.
HasPrefix(t, x) == Len(t) >= Len(x) /\ SubSeq(t, 1, Len(x)) = x
HasSuffix(t, x) == Len(t) >= Len(x) /\ SubSeq(t, Len(t) - Len(x) + 1, Len(t)) = x
GlobMatches(pattern, topic) ==
  IF pattern = rover \o Slash \o Star THEN HasPrefix(topic, rover \o Slash)
  ELSE HasSuffix(topic, Slash \o blarg)
Count(seq, x) == Cardinality({k \in 1 .. Len(seq) : seq[k] = x})

\* C6: a dispatched publish or send message has started exactly one handler
\* task for each subscription whose pattern matches its topic and none for
\* the others; rover/* matches rover/blarg and not tester/blarg.
C6_OneTaskPerMatch ==
  lastDispatch.via # "-" =>
    /\ \A i \in 1 .. Len(subscriptions) :
         Count(lastDispatch.started, i) =
           IF GlobMatches(subscriptions[i], lastDispatch.msg.data.topic)
             THEN 1 ELSE 0
    /\ \A k \in 1 .. Len(lastDispatch.started) :
         lastDispatch.started[k] \in 1 .. Len(subscriptions)
    /\ \A i \in 1 .. Len(subscriptions) :
         (/\ subscriptions[i] = rover \o Slash \o Star
          /\ lastDispatch.msg.data.topic = tester \o Slash \o blarg)
            => Count(lastDispatch.started, i) = 0

\* C6 witness: with rover/* and */blarg subscribed, a publish on rover/blarg
\* has started both handlers, once each.
C6_Witness ==
  /\ lastDispatch.via = "publish"
  /\ lastDispatch.msg.data.topic = rover \o Slash \o blarg
  /\ subscriptions = <<rover \o Slash \o Star, Star \o Slash \o blarg>>
  /\ lastDispatch.started = <<1, 2>>

\* C7 (as stated): whatever a handler or a callback raises, a dispatched
\* message has had every registered message callback invoked.
C7_CallbackErrorIsolated ==
  lastDispatch.via # "-" =>
    lastDispatch.called = [i \in 1 .. Len(message_callbacks) |-> i]

\* C8: no callback task of the caster holds a message that carries the
\* caster's own uuid; the router is not in its own peer table and has not
\* dispatched a publish of its own.
C8_NoSelfDelivery ==
  /\ \A k \in 1 .. Len(cbTasks) : cbTasks[k].msg.source # Uuid
  /\ RouterName \notin DOMAIN peers
  /\ lastDispatch.via # "-" => lastDispatch.msg.source # Uuid

\* C8 witness: the router's own publish has come back to its discovery
\* socket and is next in line for the receive loop, while a subscription
\* matches its topic.
C8_Witness ==
  /\ inbox # <<>>
  /\ Head(inbox).msg = lastCast
  /\ lastCast.source = Uuid /\ lastCast.type = "publish"
  /\ \E i \in 1 .. Len(subscriptions) :
       fnmatch(lastCast.data.topic, subscriptions[i])

Queued(m) == \E k \in 1 .. Len(cbTasks') : cbTasks'[k].msg = m

\* C9 (as stated): route_message(msg) does to the router what msg does when
\* it arrives over the network: a publish or send is dispatched, a heartbeat
\* updates the peer table, a request changes nothing.
C9_RouteAsIfReceived ==
  [][lastRouted' # lastRouted =>
       CASE lastRouted'.type \in {"publish", "send"} ->
              \/ Queued(lastRouted')
              \/ (lastDispatch'.via # "-" /\ lastDispatch'.msg = lastRouted')
         [] lastRouted'.type = "heartbeat" ->
              \/ Queued(lastRouted')
              \/ lastRouted'.data.source \in DOMAIN peers'
         [] OTHER -> UNCHANGED <<routerVars, subscriptions, message_callbacks,
                                 inbox, cbTasks, lastCast, lastDispatch>>]_vars

\* C9 (amended): route_message(msg) dispatches nothing and leaves the peer
\* table alone; for a publish it casts a publish of the router's own, with
\* the topic <router name>/<msg topic> and msg's data; for a send, a
\* heartbeat and a request it does nothing.
C9_RouteRepublishes ==
  [][lastRouted' # lastRouted =>
       /\ UNCHANGED <<routerVars, subscriptions, message_callbacks, cbTasks,
                      lastDispatch>>
       /\ IF lastRouted'.type = "publish"
            THEN lastCast' = Message(Uuid, "publish",
                               [topic |-> Chars(RouterName) \o Slash
                                            \o lastRouted'.data.topic,
                                data |-> lastRouted'.data.data])
            ELSE UNCHANGED <<lastCast, inbox>>]_vars

\* C9 witness: a publish went through route_message while a subscription
\* was registered; it was cast again under the router's name and nothing was
\* dispatched.
C9_Witness ==
  /\ lastRouted.type = "publish"
  /\ lastCast = Message(Uuid, "publish",
                        [topic |-> tester \o Slash \o blarg, data |-> 27])
  /\ Len(subscriptions) > 0
  /\ lastDispatch.via = "-"

\* C10 (as stated): every operation started on the socket is resumed: one
\* that waits for readiness is the one the socket's readiness will retry,
\* also when another of its direction was started meanwhile.
C10_WaitingOperationIsRegistered ==
  \A o \in Ops :
    opState[o] = "pending" =>
      (IF opDir[o] = "recv" THEN reader = o ELSE writer = o)

\* C11 (as stated): once a pending operation is cancelled, it is no longer
\* registered for the socket's readiness.
C11_CancelDeregisters ==
  \A o \in Ops : opState[o] = "cancelled" => (reader # o /\ writer # o)

\* C11 (amended): a cancelled operation stays cancelled and the socket call is
\* never invoked for it again; its registration goes when the event loop next
\* calls its wrapper, which deregisters and returns.
C11_CancelledNeverCalledAgain ==
  [][\A o \in Ops :
       opState[o] = "cancelled" =>
         /\ opState'[o] = "cancelled"
         /\ ~(lastWrapper'.op = o /\ lastWrapper'.func)
         /\ lastWrapper'.op = o => (reader' # o /\ writer' # o)]_vars

\* C11 witness: a cancelled recv was called back with data at hand: it left
\* the data alone and the fd has no reader.
C11_Witness ==
  /\ lastWrapper.op # 0
  /\ opState[lastWrapper.op] = "cancelled"
  /\ opDir[lastWrapper.op] = "recv"
  /\ ~lastWrapper.func
  /\ rxData > 0
  /\ reader = 0

\* C12: send(dest, topic, data) calls connect(dest) exactly when dest has no
\* entry in the connection table; the one write it makes is of a send message
\* with the router's name as source and {topic: <router name>/<topic>, data}
\* as data, on the connection the table holds for dest; it returns with
\* exactly one message written.
C12_SendConnectsIffAbsentWritesOnce ==
  [][\A c \in Callers :
       /\ (sendPc[c] = "-" /\ sendPc'[c] # "-")
            => ((arg'[c] = sendReq'[c].dest)
                  <=> (sendReq'[c].dest \notin DOMAIN connections))
       /\ written'[c] # written[c]
            => written'[c] =
                 << [conn |-> connections'[sendReq'[c].dest],
                     msg |-> [source |-> "tester", type |-> "send",
                              data |-> [topic |-> tester \o Slash
                                                   \o sendReq'[c].topic,
                                        data |-> sendReq'[c].data]]] >>
       /\ sendPc'[c] = "returned" => Len(written'[c]) = 1]_vars

\* C12 witness: one send() found no connection, waited in connect() for the
\* heartbeat and returned; another found the connection and returned.
C12_Witness ==
  \E c, d \in Callers :
    /\ sendPc[c] = "returned" /\ ~hadConn[c] /\ futDone[c]
    /\ sendPc[d] = "returned" /\ hadConn[d]

\* C13: when opening the connection fails, connect() raises the error; a
\* send() that called it raises too and writes nothing, then or later; the
\* connection table is as before, and the caller has no entry of its own in
\* the pending table.
C13_ConnectErrorLeavesNothing ==
  [][\A c \in Callers :
       /\ (pc[c] = "connecting" /\ pc'[c] = "connecterror") =>
            /\ connections' = connections
            /\ ~(/\ arg[c] \in DOMAIN pending_connections'
                 /\ pending_connections'[arg[c]] = c)
            /\ sendPc[c] = "in_connect" => sendPc'[c] = "raised"
            /\ written'[c] = <<>>
       /\ pc[c] = "connecterror" =>
            /\ pc'[c] = "connecterror"
            /\ written'[c] = <<>>
            /\ sendPc'[c] = sendPc[c]]_vars

\* C13 witness: a send() waited in connect() for the heartbeat, was resumed,
\* and its connection was refused.
C13_Witness ==
  \E c \in Callers :
    /\ pc[c] = "connecterror" /\ sendPc[c] = "raised"
    /\ futDone[c] /\ ~hadConn[c]

\* C14: the port key_to_multicast returns is the first two digest bytes read
\* little-endian with bits 14 and 15 set, so within 49152..65535; the IPv4
\* address is 224.0.0.<digest byte 3>, the IPv6 address is ff13:0000 followed
\* by digest bytes 3..14; either passes the multicast test of its family; any
\* other family raises ValueError.
C14_MulticastDerivation ==
  multicast.status # "-" =>
    IF family \in {"ipv4", "ipv6"}
      THEN /\ multicast.status = "ok"
           /\ multicast.port \in 49152 .. 65535
           /\ multicast.port % 16384 = (digest[0] + 256 * digest[1]) % 16384
           /\ IsMulticast(multicast.addr)
           /\ IF family = "ipv4"
                THEN multicast.addr = <<224, 0, 0, digest[3]>>
                ELSE /\ Len(multicast.addr) = 16
                     /\ SubSeq(multicast.addr, 1, 4) = <<255, 19, 0, 0>>
                     /\ \A i \in 5 .. 16 : multicast.addr[i] = digest[i - 2]
      ELSE multicast.status = "ValueError"

\* C14 witness: an IPv6 conversion of a digest whose first two bytes have
\* neither of the two top port bits set.
C14_Witness ==
  /\ multicast.status = "ok" /\ family = "ipv6"
  /\ digest[1] = 63 /\ digest[0] = 1 /\ digest[3] = 192
  /\ multicast.port = 49152 + 63 * 256 + 1

\* C15 (as stated): from_bytes raises ValueError, and returns no Message, for
\* bytes that are not UTF-8, for text that is not JSON, and for a JSON value
\* that lacks one of source, type and data.
C15_MalformedRaisesValueError ==
  (decoded.status # "-" /\ wire.class \in {"badutf8", "badjson", "missing"})
     => decoded.status = "ValueError"

\* JSON's own values: no tuple, and only str keys, each once.
RECURSIVE IsJson(_)
IsJson(v) ==
  CASE v.k = "list" -> \A i \in 1 .. Len(v.items) : IsJson(v.items[i])
    [] v.k = "tuple" -> FALSE
    [] v.k = "dict" ->
         /\ \A i \in 1 .. Len(v.pairs) :
              v.pairs[i][1].k = "str" /\ IsJson(v.pairs[i][2])
         /\ \A i, j \in 1 .. Len(v.pairs) :
              v.pairs[i][1] = v.pairs[j][1] => i = j
    [] OTHER -> TRUE

\* C16: a Message whose data is a JSON value comes back from
\* from_bytes(encode()) with the same source, type and data.
C16_RoundTrip ==
  (echoed.status # "-" /\ IsJson(message.data)) =>
    /\ echoed.status = "ok"
    /\ echoed.msg.source = message.source
    /\ echoed.msg.type = message.type
    /\ echoed.msg.data = message.data

\* C16 witness: a message with nested data has made the round trip.
C16_Witness ==
  /\ echoed.status = "ok"
  /\ message.data =
       PyDict(<< <<PyStr("topic"), PyStr("rover/blarg")>>,
                 <<PyStr("data"), PyList(<<PyInt(1), PyNull>>)>> >>)
  /\ echoed.msg = message

\* C18: the receive loop of the discovery channel is running whatever came:
\* a datagram that does not decode, a message of a type without callback and
\* one whose lookup or callback fails are dropped, each turn takes the
\* datagram at the head of the queue, and a foreign message of a type with a
\* callback that follows gets its callback task.
C18_RecvLoopSurvives ==
  [][/\ recvLoop' = "running"
     /\ sockQueue' # sockQueue =>
          \/ \E b \in DatagramSamples : sockQueue' = Append(sockQueue, b)
          \/ /\ sockQueue # <<>> /\ sockQueue' = Tail(sockQueue)
             /\ IF /\ from_bytes(Head(sockQueue)).status = "ok"
                   /\ from_bytes(Head(sockQueue)).msg.type
                         \in {PyStr("publish"), PyStr("heartbeat")}
                   /\ from_bytes(Head(sockQueue)).msg.source # PyStr(Uuid)
                  THEN loopTasks' =
                         Append(loopTasks,
                                [cb |-> from_bytes(Head(sockQueue)).msg.type.s,
                                 msg |-> from_bytes(Head(sockQueue)).msg])
                  ELSE loopTasks' = loopTasks]_vars

\* C18 witness: the loop has met a datagram that did not decode, a type
\* without callback, a failed lookup and a callback that raised, and after
\* them has created the task of a heartbeat, which is waiting to run.
C18_Witness ==
  /\ survived = {"decode", "notype", "lookup", "callback"}
  /\ loopTasks # <<>>
  /\ loopTasks[1].cb = "heartbeat"
  /\ recvLoop = "running"

\* C19: a read error or a decode error on an accepted connection closes that
\* connection; a message of a type without callback leaves it open and
\* creates no task; a step that closes a connection is a failed turn of that
\* connection's loop and leaves the accept loop and the other connections as
\* they are.
C19_ConnectionErrorsAreLocal ==
  [][\A c \in Conns :
       /\ (lastRead'.conn = c /\ lastRead'.outcome \in {"readerror", "decodeerror"})
            => (connState[c] = "open" /\ connState'[c] = "closed")
       /\ (lastRead'.conn = c /\ lastRead'.outcome = "ignored")
            => (connState'[c] = "open" /\ loopTasks' = loopTasks)
       /\ (connState[c] = "open" /\ connState'[c] # "open") =>
            /\ connState'[c] = "closed"
            /\ lastRead'.conn = c
            /\ lastRead'.outcome \in {"readerror", "decodeerror", "lookuperror"}
            /\ acceptLoop' = acceptLoop
            /\ \A d \in Conns \ {c} : connState'[d] = connState[d]
            /\ loopTasks' = loopTasks]_vars

\* C19 witness: of two accepted connections one was closed by a decode error
\* of its own; the other is open and the accept loop runs.
C19_Witness ==
  /\ lastRead = [conn |-> 1, outcome |-> "decodeerror"]
  /\ connState[1] = "closed"
  /\ connState[2] = "open"
  /\ acceptLoop = "running"

\* C20: a message handled by the publish handler and by the send handler
\* with the same subscriptions and message callbacks registered: both start
\* the handler tasks of the same subscriptions with the same (topic, data)
\* and invoke the same message callbacks in the same order with the message.
C20_PublishAndSendDispatchAlike ==
  (/\ lastDispatch.via # "-" /\ prevDispatch.via # "-"
   /\ lastDispatch.via # prevDispatch.via
   /\ lastDispatch.msg = prevDispatch.msg)
     => /\ lastDispatch.started = prevDispatch.started
        /\ lastDispatch.args = prevDispatch.args
        /\ lastDispatch.called = prevDispatch.called

\* C20 witness: a message on rover/blarg went through the publish handler
\* and then through the send handler, with two matching subscriptions and two
\* message callbacks of which the first raises.
C20_Witness ==
  /\ prevDispatch.via = "publish" /\ lastDispatch.via = "send"
  /\ lastDispatch.msg = prevDispatch.msg
  /\ lastDispatch.started = <<1, 2>>
  /\ lastDispatch.args = <<rover \o Slash \o blarg, 27>>
  /\ message_callbacks = <<"raises", "returns">>
  /\ lastDispatch.called = <<1>>

\* C21: once stop() was called on a Multicaster, the first system call it
\* made is the leave request of the family its socket joined with (IPv6
\* leave-group after an IPv6 join, IPv4 drop-membership after an IPv4 add-
\* membership), for its group and on its receiving socket; every close comes
\* after it; and every socket the Multicaster opened is closed, the IPv4
\* send-only socket included.
C21_StopLeavesThenCloses ==
  \A m \in Casters :
    casters[m].stops > 0 =>
      LET log == syscalls[m]
          c == casters[m]
          join == sockets[c.udp_recv].joined
      IN /\ \E i \in 1 .. Len(log) :
              /\ log[i].call = "setsockopt"
              /\ log[i].sock = c.udp_recv
              /\ log[i].group = c.group
              /\ join = "IPV6_JOIN_GROUP" =>
                   (log[i].level = "IPPROTO_IPV6" /\ log[i].opt = "IPV6_LEAVE_GROUP")
              /\ join = "IP_ADD_MEMBERSHIP" =>
                   (log[i].level = "IPPROTO_IP" /\ log[i].opt = "IP_DROP_MEMBERSHIP")
              /\ join \in {"IPV6_JOIN_GROUP", "IP_ADD_MEMBERSHIP"}
              /\ \A j \in 1 .. Len(log) : log[j].call = "close" => i < j
         /\ \A s \in 1 .. Len(sockets) :
              sockets[s].owner = m => ~sockets[s].open

\* C21 witness: an IPv4 Multicaster with its two sockets and an IPv6
\* Multicaster with its one socket were both stopped.
C21_Witness ==
  \E m, n \in Casters :
    /\ casters[m].stops > 0 /\ casters[n].stops > 0
    /\ sockets[casters[m].udp_recv].family = "AF_INET"
    /\ casters[m].udp_send # casters[m].udp_recv
    /\ ~sockets[casters[m].udp_send].open
    /\ sockets[casters[n].udp_recv].family = "AF_INET6"
    /\ casters[n].udp_send = casters[n].udp_recv
    /\ ~sockets[casters[n].udp_recv].open

\* C22: the step that removes a name from the peer table leaves the
\* connection table as it is; and a send() called while the table holds a
\* connection for dest writes its message on that connection in the same
\* step, without entering connect(), registering a future or reading an
\* endpoint from the peer table, whether the peer table holds dest or not and
\* whatever endpoint it holds.
C22_ExpiryKeepsConnection ==
  [][/\ (\E n \in DOMAIN peers : n \notin DOMAIN peers')
          => connections' = connections
     /\ \A c \in Callers :
          (/\ sendPc[c] = "-" /\ sendPc'[c] # "-"
           /\ sendReq'[c].dest \in DOMAIN connections)
             => /\ written'[c] =
                     << [conn |-> connections[sendReq'[c].dest],
                         msg |-> SendMessage(sendReq'[c])] >>
                /\ sendPc'[c] = "writing"
                /\ pc'[c] \notin {"waiting", "connecting"}
                /\ target'[c] = NoEndpoint
                /\ pending_connections' = pending_connections
                /\ connections' = connections
                /\ peers' = peers]_vars

\* C22 witness: a send() was called after its destination had expired from
\* the peer table, found the connection an earlier send() had opened, and
\* returned with its message written on it.
C22_Witness ==
  \E c, d \in Callers :
    /\ sendPc[d] = "returned" /\ ~hadConn[d]
    /\ sendPc[c] = "returned" /\ hadConn[c]
    /\ peerAtSend[c] = NoEndpoint
    /\ Len(written[c]) = 1
    /\ written[c][1].conn = written[d][1].conn

\* C22 second witness: a send() was called while the peer table held for its
\* destination another endpoint than the stored connection's, and wrote on
\* the stored connection.
C22_WitnessOtherEndpoint ==
  \E c \in Callers :
    /\ sendPc[c] = "returned" /\ hadConn[c]
    /\ peerAtSend[c] # NoEndpoint
    /\ Len(written[c]) = 1
    /\ written[c][1].conn # peerAtSend[c]

\* C23: a header byte of value 2 or 3 is not skipped: the task goes on to
\* read the packet and hands it, header first, to the decoder; a header byte
\* of any other value is skipped, and the task reads the next header.
C23_HeaderTwoOrThreeDecoded ==
  lastHeader.seen =>
    /\ lastHeader.byte \in {2, 3} <=> ~lastHeader.skipped
    /\ lastHeader.skipped => rxPc = "header"
    /\ ~lastHeader.skipped =>
         \/ rxPc \in {"length", "payload"} /\ rxHeader = <<lastHeader.byte>>
         \/ lastDecode # <<>> /\ lastDecode[1] = lastHeader.byte

\* -------------------------------------------------------- specifications
notRouter == <<daemonVars, castVars, sockVars, sendVars, netVars, msgVars,
               loopVars, prevDispatch, mcVars, peerAtSend, serialVars>>
notCast == <<routerVars, daemonVars, sockVars, sendVars, netVars, msgVars,
             loopVars, prevDispatch, mcVars, peerAtSend, serialVars>>
notDaemon == <<castVars, sockVars, sendVars, netVars, msgVars, loopVars,
               prevDispatch, mcVars, peerAtSend, serialVars>>
notSock == <<routerVars, daemonVars, castVars, sendVars, netVars, msgVars,
             loopVars, prevDispatch, mcVars, peerAtSend, serialVars>>
notSend == <<daemonVars, castVars, sockVars, netVars, msgVars, loopVars,
             prevDispatch, mcVars, peerAtSend, serialVars>>
notNet == <<routerVars, daemonVars, castVars, sockVars, sendVars, msgVars,
            loopVars, prevDispatch, mcVars, peerAtSend, serialVars>>
notMsg == <<routerVars, daemonVars, castVars, sockVars, sendVars, netVars,
            loopVars, prevDispatch, mcVars, peerAtSend, serialVars>>
notLoop == <<routerVars, daemonVars, castVars, sockVars, sendVars, netVars,
             msgVars, prevDispatch, mcVars, peerAtSend, serialVars>>
notMc == <<routerVars, daemonVars, castVars, sockVars, sendVars, netVars,
           msgVars, loopVars, prevDispatch, peerAtSend, serialVars>>

Init ==
  /\ RouterInit
  /\ DaemonInit
  /\ CastInit
  /\ SockInit
  /\ SendInit
  /\ NetInit
  /\ MsgInit
  /\ LoopInit
  /\ McInit
  /\ SerialInit
  /\ prevDispatch = NoDispatch
  /\ peerAtSend = [c \in Callers |-> NoEndpoint]
  /\ HEARTBEAT_EXPIRE = ExpireTicks

Next ==
  \/ \E c \in Callers, n \in Names : Connect(c, n) /\ UNCHANGED notRouter
  \/ \E c \in Callers : ConnectResume(c) /\ UNCHANGED notRouter
  \/ \E c \in Callers : ConnectEstablished(c) /\ UNCHANGED notRouter
  \/ \E c \in Callers : ConnectRefused(c) /\ UNCHANGED notRouter
  \/ \E c \in Callers : Cancel(c) /\ UNCHANGED notRouter
  \/ \E a \in Addrs, n \in Names, l \in ListenPorts :
        HeartbeatCallback(<<a, SrcPort>>, n, l) /\ UNCHANGED notRouter
  \/ \E t \in TaskIds : HeartbeatExpire(t) /\ UNCHANGED notRouter
  \/ Tick /\ UNCHANGED notRouter

Spec == Init /\ [][Next]_vars

\* The router with the default timing, fed by the remote daemons.
InitHeartbeat ==
  /\ RouterInit
  /\ DaemonInit
  /\ CastInit
  /\ SockInit
  /\ SendInit
  /\ NetInit
  /\ MsgInit
  /\ LoopInit
  /\ McInit
  /\ SerialInit
  /\ prevDispatch = NoDispatch
  /\ peerAtSend = [c \in Callers |-> NoEndpoint]
  /\ HEARTBEAT_EXPIRE = HEARTBEAT_EXPIRE_DEFAULT

NextHeartbeat ==
  \/ \E n \in Names : DaemonCastDelivered(n) /\ UNCHANGED notDaemon
  \/ \E n \in Names : DaemonCastLost(n) /\ UNCHANGED notDaemon
  \/ \E t \in TaskIds : HeartbeatExpire(t) /\ UNCHANGED notRouter
  \/ DaemonTick /\ UNCHANGED notDaemon

SpecHeartbeat == InitHeartbeat /\ [][NextHeartbeat]_vars

\* The router's dispatch of the publish and send messages that reach it.
InitCast ==
  /\ RouterInit
  /\ DaemonInit
  /\ CastInit
  /\ SockInit
  /\ SendInit
  /\ NetInit
  /\ MsgInit
  /\ LoopInit
  /\ McInit
  /\ SerialInit
  /\ prevDispatch = NoDispatch
  /\ peerAtSend = [c \in Callers |-> NoEndpoint]
  /\ HEARTBEAT_EXPIRE = HEARTBEAT_EXPIRE_DEFAULT

NextDispatch ==
  \/ \E p \in Patterns : Subscribe(p) /\ UNCHANGED notCast
  \/ \E k \in {"returns", "raises"} : OnMessage(k) /\ UNCHANGED notCast
  \/ \E d \in ForeignDatagrams : DatagramArrives(d) /\ UNCHANGED notCast
  \/ RecvDaemon /\ UNCHANGED notCast
  \/ \E m \in ListenerMessages : HandleConnection(m) /\ UNCHANGED notCast
  \/ RunCallback /\ UNCHANGED <<daemonVars, sockVars, sendVars, netVars,
                              msgVars, loopVars, prevDispatch, mcVars,
                              peerAtSend, serialVars>>

SpecDispatch == InitCast /\ [][NextDispatch]_vars

\* The router's caster with the traffic of the group, the router's own casts
\* among it, and route_message.
NextCast ==
  \/ \E p \in Patterns : Subscribe(p) /\ UNCHANGED notCast
  \/ \E d \in ForeignDatagrams : DatagramArrives(d) /\ UNCHANGED notCast
  \/ RecvDaemon /\ UNCHANGED notCast
  \/ RunCallback /\ UNCHANGED <<daemonVars, sockVars, sendVars, netVars,
                              msgVars, loopVars, prevDispatch, mcVars,
                              peerAtSend, serialVars>>
  \/ Publish(blarg, 27) /\ UNCHANGED notCast
  \/ OwnHeartbeat /\ UNCHANGED notCast
  \/ \E m \in RoutedMessages : RouteMessage(m) /\ UNCHANGED notCast

SpecCast == InitCast /\ [][NextCast]_vars

\* One AsyncSocket, the operations started on it, and its environment.
NextSocket ==
  \/ \E o \in Ops, d \in {"recv", "send"} : StartOp(o, d) /\ UNCHANGED notSock
  \/ ReadReady /\ UNCHANGED notSock
  \/ WriteReady /\ UNCHANGED notSock
  \/ \E o \in Ops : CancelOp(o) /\ UNCHANGED notSock
  \/ DataArrives /\ UNCHANGED notSock
  \/ BufferDrains /\ UNCHANGED notSock
  \/ SocketFails /\ UNCHANGED notSock

SpecSocket == InitCast /\ [][NextSocket]_vars

\* The router with callers of send(), each of which calls connect() when the
\* destination has no connection; one peer name, its heartbeats coming from
\* either address.  Callers of connect() alone are in Spec.
SendNames == {"rover"}

NextSend ==
  \/ \E c \in Callers, n \in SendNames, t \in SendTopics, d \in SendData :
        Send(c, n, t, d) /\ UNCHANGED notSend
  \/ \E c \in Callers :
        ConnectResume(c) /\ SendAfterConnect(c) /\ UNCHANGED notSend
  \/ \E c \in Callers :
        ConnectEstablished(c) /\ SendAfterConnect(c) /\ UNCHANGED notSend
  \/ \E c \in Callers :
        ConnectRefused(c) /\ SendAfterConnect(c) /\ UNCHANGED notSend
  \/ \E c \in Callers : Cancel(c) /\ SendAfterConnect(c) /\ UNCHANGED notSend
  \/ \E c \in Callers : SendReturns(c) /\ UNCHANGED notSend
  \/ \E c \in Callers : SendWriteFails(c) /\ UNCHANGED notSend
  \/ \E a \in Addrs, n \in SendNames, l \in ListenPorts :
        HeartbeatCallback(<<a, SrcPort>>, n, l) /\ UNCHANGED notRouter
  \/ \E t \in TaskIds : HeartbeatExpire(t) /\ UNCHANGED notRouter
  \/ Tick /\ UNCHANGED notRouter

SpecSend == Init /\ [][NextSend]_vars

\* key_to_multicast applied to the digests of keys.
InitNet ==
  /\ RouterInit
  /\ DaemonInit
  /\ CastInit
  /\ SockInit
  /\ SendInit
  /\ HEARTBEAT_EXPIRE = HEARTBEAT_EXPIRE_DEFAULT
  /\ digest \in Digests
  /\ family \in Families
  /\ multicast = NoResult
  /\ MsgInit
  /\ LoopInit
  /\ McInit
  /\ SerialInit
  /\ prevDispatch = NoDispatch
  /\ peerAtSend = [c \in Callers |-> NoEndpoint]

NextNet == KeyToMulticast /\ UNCHANGED notNet

SpecNet == InitNet /\ [][NextNet]_vars

\* Message.from_bytes applied to inputs of every kind, and the round trip of
\* messages through encode() and from_bytes.
InitMessage ==
  /\ RouterInit
  /\ DaemonInit
  /\ CastInit
  /\ SockInit
  /\ SendInit
  /\ NetInit
  /\ HEARTBEAT_EXPIRE = HEARTBEAT_EXPIRE_DEFAULT
  /\ wire \in WireSamples
  /\ message \in MessageSamples
  /\ decoded = NotCalled
  /\ encoded = NoBytes
  /\ echoed = NotCalled
  /\ LoopInit
  /\ McInit
  /\ SerialInit
  /\ prevDispatch = NoDispatch
  /\ peerAtSend = [c \in Callers |-> NoEndpoint]

NextMessage ==
  \/ FromBytes /\ UNCHANGED notMsg
  \/ Encode /\ UNCHANGED notMsg
  \/ DecodeEncoded /\ UNCHANGED notMsg

SpecMessage == InitMessage /\ [][NextMessage]_vars

\* The receive loop of the discovery channel with the datagrams that reach
\* it, and the callback tasks it creates.
NextRecv ==
  \/ \E b \in DatagramSamples : DatagramReceived(b) /\ UNCHANGED notLoop
  \/ RecvLoop /\ UNCHANGED notLoop
  \/ RunLoopTask /\ UNCHANGED notLoop

SpecRecv == InitCast /\ [][NextRecv]_vars

\* The Listener: its accept loop, the read loops of the connections it
\* accepted, and the callback tasks they create.
NextListen ==
  \/ \E c \in Conns : Accept(c) /\ UNCHANGED notLoop
  \/ AcceptFails /\ UNCHANGED notLoop
  \/ \E c \in Conns, r \in ReadSamples : ConnRead(c, r) /\ UNCHANGED notLoop
  \/ RunLoopTask /\ UNCHANGED notLoop

SpecListen == InitCast /\ [][NextListen]_vars

\* The two handlers called with messages of either type, between
\* registrations; the dispatch before the last is kept for comparison and
\* dropped with the last at a registration.
HandlerMessages ==
  { Message("rover", t, [topic |-> top \o Slash \o blarg, data |-> 27]) :
      t \in {"publish", "send"}, top \in {rover, tester} }

NextHandlers ==
  \/ \E p \in Patterns :
        /\ Subscribe(p) /\ prevDispatch' = NoDispatch
        /\ UNCHANGED <<routerVars, daemonVars, sockVars, sendVars, netVars,
                       msgVars, loopVars, mcVars, peerAtSend, serialVars>>
  \/ \E k \in {"returns", "raises"} :
        /\ OnMessage(k) /\ prevDispatch' = NoDispatch
        /\ UNCHANGED <<routerVars, daemonVars, sockVars, sendVars, netVars,
                       msgVars, loopVars, mcVars, peerAtSend, serialVars>>
  \/ \E m \in HandlerMessages :
        /\ PublishCallback(m.source, m) /\ prevDispatch' = lastDispatch
        /\ UNCHANGED <<cbTasks, routerVars, daemonVars, sockVars, sendVars,
                       netVars, msgVars, loopVars, mcVars, peerAtSend,
                       serialVars>>
  \/ \E m \in HandlerMessages :
        /\ SendCallback(m.source, m) /\ prevDispatch' = lastDispatch
        /\ UNCHANGED <<cbTasks, routerVars, daemonVars, sockVars, sendVars,
                       netVars, msgVars, loopVars, mcVars, peerAtSend,
                       serialVars>>

SpecHandlers == InitCast /\ [][NextHandlers]_vars

\* The router with callers of send(), heartbeats of one peer name from either
\* address, and the expiry of the peer; what the peer table held when a
\* send() found a connection is kept per caller.  No task is cancelled here:
\* cancellation is in Spec and SpecSend.
SendFinds(c, dest, topic, data) ==
  /\ Send(c, dest, topic, data)
  /\ peerAtSend' = [peerAtSend EXCEPT ![c] =
                      IF dest \in DOMAIN connections /\ dest \in DOMAIN peers
                        THEN peers[dest].listen ELSE NoEndpoint]

notSendFinds == <<daemonVars, castVars, sockVars, netVars, msgVars, loopVars,
                  prevDispatch, mcVars, serialVars>>

NextExpiry ==
  \/ \E c \in Callers, n \in SendNames, t \in SendTopics, d \in SendData :
        SendFinds(c, n, t, d) /\ UNCHANGED notSendFinds
  \/ \E c \in Callers :
        ConnectResume(c) /\ SendAfterConnect(c) /\ UNCHANGED notSend
  \/ \E c \in Callers :
        ConnectEstablished(c) /\ SendAfterConnect(c) /\ UNCHANGED notSend
  \/ \E c \in Callers :
        ConnectRefused(c) /\ SendAfterConnect(c) /\ UNCHANGED notSend
  \/ \E c \in Callers : SendReturns(c) /\ UNCHANGED notSend
  \/ \E c \in Callers : SendWriteFails(c) /\ UNCHANGED notSend
  \/ \E a \in Addrs, n \in SendNames, l \in ListenPorts :
        HeartbeatCallback(<<a, SrcPort>>, n, l) /\ UNCHANGED notRouter
  \/ \E t \in TaskIds : HeartbeatExpire(t) /\ UNCHANGED notRouter
  \/ Tick /\ UNCHANGED notRouter

SpecExpiry == Init /\ [][NextExpiry]_vars

\* The VESC receive task fed by the peripheral.
notSerial == <<routerVars, daemonVars, castVars, sockVars, sendVars, netVars,
               msgVars, loopVars, mcVars, prevDispatch, peerAtSend>>

NextSerial ==
  \/ \E k \in {"returns", "raises"} :
        SetPacketCallback(k) /\ UNCHANGED notSerial
  \/ \E b \in SerialBytes : SerialByteArrives(b) /\ UNCHANGED notSerial
  \/ ReadHeader /\ UNCHANGED notSerial
  \/ ReadLength /\ UNCHANGED notSerial
  \/ \E decodes \in BOOLEAN : ReadPayload(decodes) /\ UNCHANGED notSerial

SpecSerial == InitCast /\ [][NextSerial]_vars

\* Multicasters constructed on groups of either family and stopped.
NextMulticast ==
  \/ \E m \in Casters, g \in GroupSamples :
        MulticasterInit(m, g.group, g.port) /\ UNCHANGED notMc
  \/ \E m \in Casters : Stop(m) /\ UNCHANGED notMc

SpecMulticast == InitCast /\ [][NextMulticast]_vars
====
